---- MODULE Spec2Model ----
(***************************************************************************)
(* A model of the scene assembly core of the map engine:                   *)
(*   - Importer::loadSceneData and its helpers (core/src/scene/importer.cpp)*)
(*   - Map::Impl::loadScene / loadSceneAsync and the ordered worker         *)
(***************************************************************************)
EXTENDS Integers, Sequences, FiniteSets, TLC

(***************************************************************************)
(* Bounds and the documents of the modelled world                          *)
(***************************************************************************)

\* Longest `import` list a document of the model carries.
MaxImports == 2

\* Most import references the documents of one world carry in total.
MaxEdges == 4

Files == {"root", "a", "b", "c"}

\* Every document of the model lives in one directory.
BaseDir == "dir"

MkUrl(f) == <<BaseDir, f>>

\* The one document of the model that lives in a subdirectory, named by
\* the relative reference "sub/t".
SubFile == "sub/t"

SubUrl == <<BaseDir, "sub", "t">>

Urls == {MkUrl(f) : f \in Files} \cup {SubUrl}

\* The file a URL of the model names.
FileOf(url) ==
    IF url = SubUrl THEN SubFile
    ELSE IF url[1] = BaseDir THEN url[2] ELSE url[Len(url)]

\* The root URL handed to loadSceneData (_sceneUrl).
SceneUrl == MkUrl("root")

\* A URL or relative reference is held as its path split at '/'; an
\* absolute URL begins with the segment that stands for scheme and host.
ZipScheme == "zip:"

IsAbsolute(ref) == Len(ref) > 0 /\ ref[1] \in {BaseDir, ZipScheme}

\* Url::resolve: an absolute reference is the result; a relative one
\* replaces the last segment of the base.
ResolveUrl(base, ref) ==
    IF IsAbsolute(ref) THEN ref ELSE SubSeq(base, 1, Len(base) - 1) \o ref

\* The path of a relative reference written as a file name.
PathOf(rel) == IF rel = SubFile THEN <<"sub", "t">> ELSE <<rel>>

\* Url::resolve for a reference given as a file name.
Resolve(base, rel) == ResolveUrl(base, PathOf(rel))

\* The files a document may name in its import list.
ImportTargets(f) ==
    CASE f = "root" -> {"root", "a", "b"}
      [] f = "a"    -> {"root", "b", "c"}
      [] f = "b"    -> {"c"}
      [] f = "c"    -> {}

SeqsUpTo(S, n) == UNION {[1..k -> S] : k \in 0..n}

ImportLists(f) == SeqsUpTo(ImportTargets(f), MaxImports)

Range(s) == {s[i] : i \in 1..Len(s)}

\* The files a fetch of which fails with a transport error in some worlds.
MayFail == {"b"}

\* Files reachable from the root through the import lists g, where the
\* documents in `failing` deliver no import list.
RECURSIVE ReachFrom(_, _, _)
ReachFrom(g, failing, seen) ==
    LET more == UNION {Range(g[f]) : f \in seen \ failing} \ seen
    IN IF more = {} THEN seen ELSE ReachFrom(g, failing, seen \cup more)

RECURSIVE SumLen(_, _)
SumLen(g, fs) ==
    IF fs = {} THEN 0
    ELSE LET f == CHOOSE x \in fs : TRUE IN Len(g[f]) + SumLen(g, fs \ {f})

\* A world fixes what every URL serves: the import list of each document
\* and the documents whose fetch fails. Files out of reach of the root are
\* never fetched: they carry no list and do not fail.
Worlds ==
    {w \in [imports : {g \in [root : ImportLists("root"), a : ImportLists("a"),
                                b : ImportLists("b"), c : ImportLists("c")] :
                          SumLen(g, Files) <= MaxEdges},
            failing : SUBSET MayFail] :
        LET reach == ReachFrom(w.imports, w.failing, {"root"}) IN
        /\ \A f \in Files \ reach : w.imports[f] = <<>>
        /\ w.failing \subseteq reach
        /\ \A f \in w.failing : w.imports[f] = <<>>}

(***************************************************************************)
(* YAML nodes as values                                                    *)
(***************************************************************************)

Null == [t |-> "null"]
Scalar(v) == [t |-> "scalar", v |-> v]
SeqNode(s) == [t |-> "seq", s |-> s]
MapNode(m) == [t |-> "map", m |-> m]
EmptyMap == MapNode(<<>>)

IsMap(n) == n.t = "map"
IsScalar(n) == n.t = "scalar"
IsSequence(n) == n.t = "seq"

HasKey(n, k) == IsMap(n) /\ k \in DOMAIN n.m

\* Node::operator[] on a const node: the child, or an undefined (null) node.
Child(n, k) == IF HasKey(n, k) THEN n.m[k] ELSE Null

\* A node left with the key in place.
KeepKey(n, k) == n

\* Node::remove(key)
RemoveKey(n, k) ==
    IF HasKey(n, k)
    THEN MapNode([j \in (DOMAIN n.m) \ {k} |-> n.m[j]])
    ELSE n

\* The body of file f without its import field: every scalar a document
\* writes is the file's own name, so the origin of a merged value is visible.
DocBody(f) ==
    CASE f = "root" -> [z |-> Scalar("root")]
      [] f = "a"    -> [x |-> Scalar("a"), y |-> Scalar("a"),
                        m |-> MapNode([p |-> Scalar("a")])]
      [] f = "b"    -> [x |-> Scalar("b"), y |-> MapNode([q |-> Scalar("b")]),
                        m |-> MapNode([p |-> Scalar("b"), q |-> Scalar("b")])]
      [] f = "c"    -> [x |-> Scalar("c"), m |-> Scalar("c")]

\* The import field for a list of file names: a scalar for one name, a
\* sequence of scalars otherwise.
ImportField(list) ==
    IF Len(list) = 1 THEN Scalar(list[1])
    ELSE SeqNode([i \in 1..Len(list) |-> Scalar(list[i])])

WithImport(body, list) ==
    IF list = <<>> THEN MapNode(body)
    ELSE MapNode([k \in (DOMAIN body) \cup {"import"} |->
                    IF k = "import" THEN ImportField(list) ELSE body[k]])

(***************************************************************************)
(* Documents that carry styles, textures, sources and fonts                *)
(***************************************************************************)

\* The files of these worlds: the root, a sibling of it and a document one
\* directory below.
AssetFiles == {"root", "a", SubFile}

UrlOfFile(f) == Resolve(SceneUrl, f)

\* A scalar of the document of file f at a position where getTextureUrlNodes
\* may keep a Node handle. A yaml-cpp Node is a handle on a node cell that
\* refers to shared data: `cell` is the document whose cell holds the
\* position, `ref` the document whose data the cell refers to.
Leaf(v, f) == [t |-> "scalar", v |-> v, cell |-> f, ref |-> f]

\* The cell Node::operator[] creates in the tree for a key it does not hold.
TreeCell == "tree"

\* What `texture` of style s is in a document: absent, a relative URL of
\* its own, or the texture name "pois".
TexChoices == {"none", "url", "name"}

OwnTexture(f) ==
    CASE f = "root"  -> <<"r.png">>
      [] f = "a"     -> <<"a.png">>
      [] f = SubFile -> <<"img", "t.png">>

TextureValue(choice, f) == IF choice = "name" THEN <<"pois">> ELSE OwnTexture(f)

\* styles.s of file f: the chosen texture; the document below carries a
\* material texture, the sibling shader uniforms of every kind of scalar.
StyleOf(k, f) ==
    LET keys == (IF k.tex[f] # "none" THEN {"texture"} ELSE {})
                \cup (IF f = SubFile THEN {"material"} ELSE {})
                \cup (IF f = "a" THEN {"shaders"} ELSE {})
    IN [key \in keys |->
          CASE key = "texture"  -> Leaf(TextureValue(k.tex[f], f), f)
            [] key = "material" ->
                 MapNode([diffuse |-> MapNode([texture |-> Leaf(<<"d.png">>, f)]),
                          shininess |-> Leaf(<<"12">>, f)])
            [] key = "shaders"  ->
                 MapNode([uniforms |-> MapNode([u |-> Leaf(<<"u.png">>, f),
                                                g |-> Leaf(<<"global.tex">>, f),
                                                n |-> Leaf(<<"12">>, f),
                                                b |-> Leaf(<<"true">>, f)])])]

\* textures of file f: the document below defines `tt`, the sibling a
\* texture held in a global, and the file the world names defines `pois`.
TexturesOf(k, f) ==
    LET keys == (IF f = SubFile THEN {"tt"} ELSE {})
                \cup (IF f = "a" THEN {"tg"} ELSE {})
                \cup (IF k.named = f THEN {"pois"} ELSE {})
    IN [key \in keys |->
          CASE key = "tt"   -> MapNode([url |-> Scalar(<<"img", "tt.png">>)])
            [] key = "tg"   -> MapNode([url |-> Scalar(<<"global.tex">>)])
            [] key = "pois" -> MapNode([url |-> Scalar(<<"pois.png">>)])]

\* sources of file f.
SourcesOf(f) ==
    CASE f = SubFile -> [st |-> MapNode([url |-> Scalar(<<"t.json">>)])]
      [] f = "a"     -> [sa |-> MapNode([url |-> Scalar(<<"global.src">>)]),
                         sx |-> Scalar(<<"a.json">>)]
      [] f = "root"  -> [st |-> MapNode([type |-> Scalar(<<"mvt">>)]),
                         sr |-> MapNode([url |-> Scalar(<<"data", "r.json">>)])]

\* fonts of file f: a font is a map or a sequence of maps.
FontsOf(f) ==
    CASE f = SubFile -> [ft |-> MapNode([url |-> Scalar(<<"t.ttf">>)])]
      [] f = "a"     -> [fa |-> SeqNode(<<MapNode([url |-> Scalar(<<"a1.ttf">>)]),
                                          MapNode([url |-> Scalar(<<"global.font">>)])>>)]
      [] f = "root"  -> [fr |-> MapNode([weight |-> Scalar(<<"400">>)])]

\* The body of file f in a world of kit k.
AssetBody(k, f) ==
    LET keys == {"sources", "fonts"}
                \cup (IF DOMAIN StyleOf(k, f) # {} THEN {"styles"} ELSE {})
                \cup (IF DOMAIN TexturesOf(k, f) # {} THEN {"textures"} ELSE {})
    IN [key \in keys |->
          CASE key = "styles"   -> MapNode([s |-> MapNode(StyleOf(k, f))])
            [] key = "textures" -> MapNode(TexturesOf(k, f))
            [] key = "sources"  -> MapNode(SourcesOf(f))
            [] key = "fonts"    -> MapNode(FontsOf(f))]

\* The import graphs of these worlds.
AssetGraphs ==
    {[f \in AssetFiles |-> IF f = "root" THEN r ELSE IF f = "a" THEN a ELSE <<>>] :
        r \in {<<SubFile>>, <<"a">>, <<"a", SubFile>>, <<SubFile, "a">>},
        a \in {<<>>, <<SubFile>>}}

\* The worlds with such documents: every reachable document picks its
\* texture, and at most one document defines the texture `pois`.
AssetWorlds ==
    {w \in [imports : AssetGraphs, failing : {{}},
            assets : [tex : [AssetFiles -> TexChoices],
                      named : AssetFiles \cup {"none"}]] :
        LET reach == ReachFrom(w.imports, {}, {"root"}) IN
        /\ SubFile \in reach
        /\ \A f \in AssetFiles \ reach :
             /\ w.imports[f] = <<>>
             /\ w.assets.tex[f] = "none"
             /\ w.assets.named # f}

\* What the fields of style s are in a root document made to exercise
\* getTextureUrlNodes: `texture` is absent or a scalar of some kind,
\* `material` and `shaders` are absent, a scalar or a map.
TextureShapes == {"none", "url", "global", "bool", "number"}

FieldShapes == {"none", "scalar", "map"}

StyleShapes == [texture : TextureShapes, material : FieldShapes, shaders : FieldShapes]

\* styles.s of the root document for a shape. The material map has a
\* property with a texture, one that is no map and one whose texture is a
\* number; the uniforms hold scalars of every kind and a sequence.
ShapedStyle(shape) ==
    LET f == "root"
        keys == (IF shape.texture # "none" THEN {"texture"} ELSE {})
                \cup (IF shape.material # "none" THEN {"material"} ELSE {})
                \cup (IF shape.shaders # "none" THEN {"shaders"} ELSE {})
    IN [key \in keys |->
          CASE key = "texture" ->
                 Leaf(CASE shape.texture = "url"    -> <<"r.png">>
                        [] shape.texture = "global" -> <<"global.tex">>
                        [] shape.texture = "bool"   -> <<"true">>
                        [] shape.texture = "number" -> <<"12">>, f)
            [] key = "material" ->
                 IF shape.material = "scalar" THEN Leaf(<<"m.png">>, f)
                 ELSE MapNode([diffuse |-> MapNode([texture |-> Leaf(<<"d.png">>, f)]),
                               normal |-> Leaf(<<"n.png">>, f),
                               ambient |-> MapNode([texture |-> Leaf(<<"12">>, f)])])
            [] key = "shaders" ->
                 IF shape.shaders = "scalar" THEN Leaf(<<"s.png">>, f)
                 ELSE MapNode([uniforms |-> MapNode(
                        [u |-> Leaf(<<"u.png">>, f),
                         g |-> Leaf(<<"global.tex">>, f),
                         n |-> Leaf(<<"12">>, f),
                         q |-> SeqNode(<<Leaf(<<"q1.png">>, f), Leaf(<<"true">>, f),
                                         Leaf(<<"q2.png">>, f)>>)])])]

\* The root document of a shape: style s, a style that is no map and a
\* style that holds a texture only.
StyleBody(shape) ==
    [styles |-> MapNode([s |-> MapNode(ShapedStyle(shape)),
                         flat |-> Scalar(<<"flat.png">>),
                         z |-> MapNode([texture |-> Leaf(<<"z.png">>, "root")])])]

\* The worlds whose root document, without imports, has such a style.
StyleWorlds ==
    {[imports |-> [f \in Files |-> <<>>], failing |-> {}, style |-> shape] :
        shape \in StyleShapes}

\* The response record of a transport error.
ErrorResponse == [error |-> TRUE, yaml |-> Null]

\* What YamlUtil::loadNoCopy makes of text that is not YAML: it throws.
Unparsable == [t |-> "unparsable"]

\* How the failing files of a world fail: the fetch reports an error, the
\* text does not parse, or it parses to a scalar instead of a map.
FailKinds == {"fetch", "parse", "scalar"}

FailKind(w) == IF "bad" \in DOMAIN w THEN w.bad ELSE "fetch"

(***************************************************************************)
(* Zip archives                                                            *)
(***************************************************************************)

\* The archive files of the model.
ZipNames == {"pack.zip", "more.zip"}

\* Most entries of an archive of the model.
MaxEntries == 3

\* The entry paths an archive may hold, as segments.
EntryPaths ==
    {<<"readme.txt">>, <<"sub", "s.yaml">>, <<"a.yaml">>, <<"t.yaml">>, <<"b.yml">>}

\* Url::getPathExtension of the last segment of a path.
PathExtension(name) ==
    CASE name \in {"a.yaml", "t.yaml", "s.yaml"} -> "yaml"
      [] name = "b.yml" -> "yml"
      [] name \in ZipNames -> "zip"
      [] OTHER -> "txt"

\* isZipArchiveUrl: the path extension of the URL is "zip".
IsZipArchiveUrl(url) == PathExtension(url[Len(url)]) = "zip"

\* The document an entry decompresses to, parsed for the SceneNode of `doc`:
\* a.yaml imports t.yaml and names a texture file of the archive.
EntryDoc(path, doc) ==
    LET name == path[Len(path)] IN
    CASE name = "a.yaml" ->
           MapNode([import |-> Scalar("t.yaml"),
                    styles |-> MapNode([sa |-> MapNode(
                                 [texture |-> Leaf(<<"img", "x.png">>, doc)])]),
                    textures |-> MapNode([ta |-> MapNode(
                                 [url |-> Scalar(<<"img", "tt.png">>)])])])
      [] name = "b.yml" ->
           MapNode([styles |-> MapNode([sb |-> MapNode(
                                 [texture |-> Leaf(<<"b.png">>, doc)])])])
      [] name = "t.yaml" ->
           MapNode([sources |-> MapNode([zt |-> MapNode(
                                 [url |-> Scalar(<<"t.json">>)])])])
      [] name = "s.yaml" ->
           MapNode([sources |-> MapNode([zs |-> MapNode(
                                 [url |-> Scalar(<<"s.json">>)])])])
      [] OTHER -> Unparsable

\* The archives of the model: entries in archive order, no path twice.
Archives ==
    {a \in SeqsUpTo(EntryPaths, MaxEntries) :
        \A i, j \in 1..Len(a) : i # j => a[i] # a[j]}

\* The worlds in which the root imports one or two archives.
ZipWorlds ==
    {[imports |-> [f \in Files |-> IF f = "root" THEN r ELSE <<>>],
      failing |-> {},
      assets |-> [tex |-> [f \in AssetFiles |-> "none"], named |-> "none"],
      zip |-> [z \in ZipNames |-> IF z = "pack.zip" THEN a ELSE <<<<"b.yml">>>>]] :
        r \in {<<"pack.zip">>, <<"pack.zip", "more.zip">>, <<"more.zip", "pack.zip">>},
        a \in Archives}

\* The URLs of the archives and of their entries.
ZipUrls ==
    {MkUrl(z) : z \in ZipNames}
    \cup {<<ZipScheme, l>> \o path : l \in {"d%2Fp", "d%2Fm"}, path \in EntryPaths}

\* The file a nested `import` key names.
NestedTarget == "c"

\* A sub-map that has an `import` key of its own.
NestedMap(f) == MapNode([import |-> Scalar(NestedTarget), k |-> Scalar(f)])

\* The document of file f in a world where file w.nested holds such a
\* sub-map under `sub` and, when w.mixed, writes its import field as a
\* sequence that ends in an element that is a map.
NestedDoc(w, f) ==
    LET list == w.imports[f]
        odd == f = w.nested /\ w.mixed
        keys == (DOMAIN DocBody(f))
                \cup (IF f = w.nested THEN {"sub"} ELSE {})
                \cup (IF list # <<>> \/ odd THEN {"import"} ELSE {})
    IN MapNode([key \in keys |->
          CASE key = "sub" -> NestedMap(f)
            [] key = "import" ->
                 IF odd
                 THEN SeqNode([i \in 1..Len(list) |-> Scalar(list[i])]
                              \o <<MapNode([import |-> Scalar(NestedTarget)])>>)
                 ELSE ImportField(list)
            [] OTHER -> DocBody(f)[key]])

\* The worlds without failures in which one reachable document is such a
\* document.
NestedWorlds ==
    {[imports |-> w.imports, failing |-> {}, nested |-> f, mixed |-> b] :
        w \in {v \in Worlds : v.failing = {}}, f \in {"root", "a"}, b \in BOOLEAN}

\* What a fetch of file f delivers in world w.
Response(w, f) ==
    IF "zip" \in DOMAIN w /\ f \in DOMAIN w.zip
    THEN [error |-> FALSE, yaml |-> Null, zip |-> w.zip[f]]
    ELSE
    IF f \in w.failing
    THEN CASE FailKind(w) = "fetch"  -> ErrorResponse
           [] FailKind(w) = "parse"  -> [error |-> FALSE, yaml |-> Unparsable]
           [] FailKind(w) = "scalar" -> [error |-> FALSE, yaml |-> Scalar(f)]
    ELSE IF "nested" \in DOMAIN w THEN [error |-> FALSE, yaml |-> NestedDoc(w, f)]
    ELSE [error |-> FALSE,
          yaml |-> WithImport(IF "assets" \in DOMAIN w THEN AssetBody(w.assets, f)
                              ELSE IF "style" \in DOMAIN w THEN StyleBody(w.style)
                              ELSE DocBody(f),
                              w.imports[f])]

\* The worlds in which a document fails, in each of the three ways.
FailWorlds ==
    {[imports |-> w.imports, failing |-> w.failing, bad |-> k] :
        w \in {v \in Worlds : v.failing # {}}, k \in FailKinds}

(***************************************************************************)
(* Importer state                                                          *)
(***************************************************************************)
VARIABLES
    pc,               \* position of the thread running loadSceneData
    m_sceneQueue,     \* std::vector<Url>, used as a stack
    m_sceneNodes,     \* std::unordered_map<Url, SceneNode>
    m_canceled,
    m_urlRequests,    \* std::vector<UrlRequestHandle>
    activeDownloads,  \* std::atomic_uint local to loadSceneData
    nextUrlToImport,
    handle,           \* the handle startUrlRequest returned, before it is recorded
    inflight,         \* started requests whose callback has not run: [h, url]
    nextHandle,       \* platform handle counter
    cancelIssued,     \* handles passed to Platform::cancelUrlRequest
    world,            \* what each URL serves
    fetchCount,       \* history: fetches started per URL
    parseCount,       \* history: addSceneYaml calls per URL
    stack,            \* call stack of importScenesRecursive: frames [url, i]
    imported,         \* std::unordered_set<Url> imported
    mergeLog,         \* history: URLs in the order mergeMapFields merged them
    root,             \* Node root, the tree loadSceneData returns
    m_zipArchives,    \* std::unordered_map<Url, std::shared_ptr<ZipArchive>>
    zipQueue,         \* the tasks of m_zipWorker: the URLs of readFromZip calls
    zipLog,           \* history: what each task of m_zipWorker answered
    zipBase,          \* history: the entry addSceneData took for each archive
    roundTrip,        \* an archive URL and entry path taken through the zip URL
    \* ---- Map::Impl
    scene,            \* std::unique_ptr<Scene> scene: the id of the current scene
    alive,            \* scenes constructed and not destroyed
    destroyCount,     \* history: destructor runs per scene
    destroyedBy,      \* history: what ran the destructor of a scene
    useCount,         \* shared_ptr use count of a scene moved out of `scene`
    canceledScenes,   \* scenes on which cancelTasks() was called
    loadedScenes,     \* scenes on which load() has run
    nextSceneId,
    asyncQueue,       \* AsyncWorker queue: tasks [kind, scene]
    running,          \* the task the worker is executing
    mainPc,           \* position of the thread calling Map::loadScene
    oldScene,         \* std::shared_ptr<Scene> oldScene of loadSceneAsync
    onSceneReady,     \* whether a SceneReadyCallback is set
    leakWarning,      \* the LOGE of the dispose task was reached
    readyLog,         \* history: onSceneReady invocations
    workerLog,        \* history: task starts and ends on the worker
    submitted,        \* history: tasks in the order they were enqueued
    calls,            \* history: one record per Map::loadScene call
    \* ---- Map: client state, update and shutdown
    client            \* the Map as its client calls reach it: one field per member below

platformVars == <<inflight, nextHandle, cancelIssued, fetchCount, parseCount>>

requestVars == <<inflight, nextHandle, cancelIssued, fetchCount>>

mergeVars == <<stack, imported, mergeLog, root>>

zipVars == <<m_zipArchives, zipQueue, zipLog, zipBase, roundTrip>>

loadVars == <<pc, m_sceneQueue, m_sceneNodes, m_canceled, m_urlRequests,
              activeDownloads, nextUrlToImport, handle, platformVars, world,
              mergeVars, m_zipArchives, zipQueue, zipLog, zipBase>>

impVars == <<pc, m_sceneQueue, m_sceneNodes, m_canceled, m_urlRequests,
             activeDownloads, nextUrlToImport, handle, platformVars, world,
             mergeVars, zipVars>>

mapVars == <<scene, alive, destroyCount, destroyedBy, useCount, canceledScenes,
             loadedScenes, nextSceneId, asyncQueue, running, mainPc, oldScene,
             onSceneReady, leakWarning, readyLog, workerLog, submitted, calls>>

\* std::map<int32_t, ClientTileSource>: the staged flags per source id.
clientTileSources == client.clientTileSources

\* The client sources registered in the TileManager of the current scene.
tileManager == client.tileManager

\* History: the sources registered when the client's calls are replayed in
\* the order they were made.
replayed == client.replayed

\* History: the TileManager calls of the latest syncClientTileSources.
lastSync == client.lastSync

\* The scenes whose completeScene has returned true (isReady).
readyScenes == client.readyScenes

\* History: what the latest Map::update did.
lastUpdate == client.lastUpdate

\* View: the zoom the camera is set to.
view == client.view

\* The markers held by the MarkerManager of the current scene.
markers == client.markers

\* JobQueue: the jobs waiting for runJobs.
jobQueue == client.jobQueue

\* The scene whose background colour the Map shows.
background == client.background

\* The scenes that were destroyed before the current scene was constructed:
\* the allocation of the current scene may have returned the memory of one
\* of them.
reusable == client.reusable

\* History: the scenes whose prefetch job passed the test of line 165 in
\* the latest Map::update.
prefetchedBy == client.prefetchedBy

\* History: the steps Map::~Map has taken.
shutdownLog == client.shutdownLog

\* Three styles of the scene and, once they were compared, what
\* Style::compare answered for each pair of them.
compared == client.compared

clientVars == <<client>>

vars == <<impVars, mapVars, clientVars, zipVars>>

EmptySceneNode == [yaml |-> Null, imports |-> <<>>, pendingUrlNodes |-> {}]

\* Strings that begin with "global.".
GlobalRefs == {"global.tex", "global.src", "global.font"}

\* Strings YAML::convert<bool> or YAML::convert<double> decodes.
BoolOrNumber == {"true", "false", "12", "400"}

\* nodeIsPotentialUrl: a scalar that does not begin with "global.".
NodeIsPotentialUrl(node) == IsScalar(node) /\ node.v[1] \notin GlobalRefs

\* nodeIsPotentialTextureUrl: moreover neither a boolean nor a number.
NodeIsPotentialTextureUrl(node) ==
    NodeIsPotentialUrl(node) /\ node.v[1] \notin BoolOrNumber

MaterialProps == {"emission", "ambient", "diffuse", "specular", "normal"}

\* The name a key path gives to the i-th element of a sequence.
IndexKey(i) == <<"1", "2", "3">>[i]

\* The elements of a sequence node as a map from these names.
Elements(n) == [k \in {IndexKey(i) : i \in 1..Len(n.s)} |->
                   n.s[CHOOSE i \in 1..Len(n.s) : IndexKey(i) = k]]

\* Importer::getTextureUrlNodes: the positions of the document, as key
\* paths, whose Node handle is kept for the rewrite after the merge. A
\* non-map `material` skips the shaders of the style (the `continue` of
\* line 357). An element of a sequence is named by its index.
GetTextureUrlNodes(yaml) ==
    LET styles == Child(yaml, "styles") IN
    IF ~IsMap(styles) THEN {}
    ELSE UNION {
        LET style == styles.m[name]
            material == Child(style, "material")
            shaders == Child(style, "shaders")
            uniforms == Child(shaders, "uniforms")
        IN IF ~IsMap(style) THEN {}
           ELSE (IF NodeIsPotentialTextureUrl(Child(style, "texture"))
                 THEN {<<"styles", name, "texture">>} ELSE {})
                \cup
                (IF HasKey(style, "material") /\ IsMap(material)
                 THEN {<<"styles", name, "material", prop, "texture">> :
                         prop \in {q \in MaterialProps :
                             /\ IsMap(Child(material, q))
                             /\ NodeIsPotentialTextureUrl(
                                    Child(Child(material, q), "texture"))}}
                 ELSE {})
                \cup
                (IF /\ ~(HasKey(style, "material") /\ ~IsMap(material))
                    /\ IsMap(shaders) /\ IsMap(uniforms)
                 THEN {<<"styles", name, "shaders", "uniforms", u>> :
                         u \in {q \in DOMAIN uniforms.m :
                                  NodeIsPotentialTextureUrl(uniforms.m[q])}}
                      \cup UNION {
                         {<<"styles", name, "shaders", "uniforms", u, IndexKey(i)>> :
                            i \in {j \in 1..Len(uniforms.m[u].s) :
                                     NodeIsPotentialTextureUrl(uniforms.m[u].s[j])}}
                         : u \in {q \in DOMAIN uniforms.m : IsSequence(uniforms.m[q])}}
                 ELSE {})
        : name \in DOMAIN styles.m}

\* The node of the tree at a key path, Null where the tree does not reach.
RECURSIVE NodeAtPath(_, _)
NodeAtPath(n, path) ==
    IF path = <<>> THEN n
    ELSE IF HasKey(n, Head(path)) THEN NodeAtPath(n.m[Head(path)], Tail(path))
    ELSE IF IsSequence(n) /\ Head(path) \in DOMAIN Elements(n)
    THEN NodeAtPath(Elements(n)[Head(path)], Tail(path))
    ELSE Null

\* The tree with the scalar at a key path set to v (Node::operator= of a
\* string: set_scalar on the data the node refers to).
RECURSIVE SetScalarAt(_, _, _)
SetScalarAt(n, path, v) ==
    IF path = <<>> THEN [n EXCEPT !.v = v]
    ELSE IF IsSequence(n)
    THEN SeqNode([i \in 1..Len(n.s) |->
                    IF IndexKey(i) = Head(path) THEN SetScalarAt(n.s[i], Tail(path), v)
                    ELSE n.s[i]])
    ELSE MapNode([n.m EXCEPT ![Head(path)] = SetScalarAt(@, Tail(path), v)])

\* Url::string() spells a URL as characters. A string is a sequence of
\* characters; every path segment of the model is spelled with one letter.
Spell(segment) ==
    CASE segment = BaseDir      -> "d"
      [] segment = "pack.zip"   -> "p"
      [] segment = "more.zip"   -> "m"
      [] segment = "a.yaml"     -> "a"
      [] segment = "b.yml"      -> "b"
      [] segment = "t.yaml"     -> "t"
      [] segment = "s.yaml"     -> "s"
      [] segment = "sub"        -> "u"
      [] segment = "readme.txt" -> "r"

SegmentNames ==
    {BaseDir, "pack.zip", "more.zip", "a.yaml", "b.yml", "t.yaml", "s.yaml", "sub",
     "readme.txt"}

\* The characters of "zip://", the scheme spelled with one letter.
ZipPrefix == <<"z", ":", "/", "/">>

\* The characters Url::escapeReservedCharacters replaces, with their codes.
ReservedCharacters == {"/", ":", "%"}

PercentCode(c) ==
    CASE c = "/" -> <<"%", "2", "F">>
      [] c = ":" -> <<"%", "3", "A">>
      [] c = "%" -> <<"%", "2", "5">>

\* Url::escapeReservedCharacters: every reserved character becomes its
\* percent code.
RECURSIVE EscapeReservedCharacters(_)
EscapeReservedCharacters(str) ==
    IF str = <<>> THEN <<>>
    ELSE (IF Head(str) \in ReservedCharacters THEN PercentCode(Head(str))
          ELSE <<Head(str)>>)
         \o EscapeReservedCharacters(Tail(str))

\* Url::unEscapeReservedCharacters: every percent code becomes its character;
\* a '%' that begins no code stays.
RECURSIVE UnEscapeReservedCharacters(_)
UnEscapeReservedCharacters(str) ==
    IF str = <<>> THEN <<>>
    ELSE IF /\ Len(str) >= 3
            /\ \E c \in ReservedCharacters : PercentCode(c) = SubSeq(str, 1, 3)
         THEN <<CHOOSE c \in ReservedCharacters : PercentCode(c) = SubSeq(str, 1, 3)>>
              \o UnEscapeReservedCharacters(SubSeq(str, 4, Len(str)))
         ELSE <<Head(str)>> \o UnEscapeReservedCharacters(Tail(str))

\* The characters of str before its first '/'.
RECURSIVE UpToSlash(_)
UpToSlash(str) ==
    IF str = <<>> \/ Head(str) = "/" THEN <<>>
    ELSE <<Head(str)>> \o UpToSlash(Tail(str))

\* Url::netLocation of a URL with the scheme zip: what follows "zip://" up
\* to the path.
NetLocation(str) == UpToSlash(SubSeq(str, Len(ZipPrefix) + 1, Len(str)))

\* Url::resolve of a relative path against a URL with an empty path: the
\* path becomes the reference, below the root.
ResolveString(base, rel) == base \o <<"/">> \o rel

\* An entry URL taken for its archive without decoding the net location.
EncodedLocation(zipEntryUrl) == NetLocation(zipEntryUrl)

\* Importer::getArchiveUrlForZipEntry, on the characters of the URL.
GetArchiveUrlForZipEntry(zipEntryUrl) ==
    UnEscapeReservedCharacters(NetLocation(zipEntryUrl))

\* Importer::getBaseUrlForZipArchive, on the characters of the URL:
\* "zip://" and the escaped archive URL, with an empty path.
GetBaseUrlForZipArchive(archiveUrl) == ZipPrefix \o EscapeReservedCharacters(archiveUrl)

\* The segments of a path string, split at '/'.
RECURSIVE Segments(_)
Segments(str) ==
    IF \A i \in 1..Len(str) : str[i] # "/" THEN <<str>>
    ELSE LET head == UpToSlash(str) IN
         <<head>> \o Segments(SubSeq(str, Len(head) + 2, Len(str)))

\* The segment whose spelling is the one-letter string str.
NameOf(str) == CHOOSE n \in SegmentNames : <<Spell(n)>> = str

\* The net location of a zip URL held as one segment of the URL.
NetLocationNames ==
    {[chars |-> <<"d", "%", "2", "F", "p">>, name |-> "d%2Fp"],
     [chars |-> <<"d", "%", "2", "F", "m">>, name |-> "d%2Fm"]}

LocationName(chars) == (CHOOSE l \in NetLocationNames : l.chars = chars).name

LocationChars(name) == (CHOOSE l \in NetLocationNames : l.name = name).chars

\* Url::string of a URL of the model.
UrlString(url) ==
    LET join(path) ==
          [i \in 1..(2 * Len(path) - 1) |->
             IF i % 2 = 1 THEN Spell(path[(i + 1) \div 2]) ELSE "/"]
    IN IF url[1] = ZipScheme
       THEN ZipPrefix \o LocationChars(url[2]) \o <<"/">>
            \o join(SubSeq(url, 3, Len(url)))
       ELSE join(url)

\* Url::Url(string): the URL of the model a string spells. A zip URL with
\* an empty path ends in an empty segment.
ParseUrl(str) ==
    LET names(path) == [i \in 1..Len(Segments(path)) |-> NameOf(Segments(path)[i])]
    IN IF Len(str) >= Len(ZipPrefix) /\ SubSeq(str, 1, Len(ZipPrefix)) = ZipPrefix
       THEN LET loc == NetLocation(str)
                rest == SubSeq(str, Len(ZipPrefix) + Len(loc) + 2, Len(str))
            IN <<ZipScheme, LocationName(loc)>>
               \o (IF rest = <<>> THEN <<"">> ELSE names(rest))
       ELSE names(str)

\* The archive readFromZip looks up for a zip entry URL (line 162).
ArchiveOf(url) == ParseUrl(GetArchiveUrlForZipEntry(UrlString(url)))

\* The URL the documents of an archive resolve against (lines 222-225).
ZipBaseOf(url) == ParseUrl(GetBaseUrlForZipArchive(UrlString(url)))

\* Lines 93-96 and 396-399: the URL relative references resolve against.
BaseOf(url) == IF IsZipArchiveUrl(url) THEN ZipBaseOf(url) ELSE url

\* One `url` entry of resolveSceneUrls: resolved when it is a potential URL.
ResolveUrlEntry(entry, base) ==
    IF IsMap(entry) /\ HasKey(entry, "url") /\ NodeIsPotentialUrl(entry.m["url"])
    THEN MapNode([entry.m EXCEPT !["url"] = [@ EXCEPT !.v = ResolveUrl(base, @)]])
    ELSE entry

\* A pass that resolves every URL against the URL of the root document.
ResolveAgainstRoot(tree, baseUrl) == BaseOf(SceneUrl)

\* The base resolveSceneUrls(root, baseUrl) resolves against (lines 396-399).
ResolveBase(tree, baseUrl) == BaseOf(baseUrl)

\* Importer::resolveSceneUrls: the tree with the `url` of every texture,
\* source and font resolved against the base.
ResolveSceneUrls(tree, baseUrl) ==
    LET base == ResolveBase(tree, baseUrl)
        each(n) == MapNode([k \in DOMAIN n.m |-> ResolveUrlEntry(n.m[k], base)])
        font(n) == IF IsMap(n) THEN ResolveUrlEntry(n, base)
                   ELSE IF IsSequence(n)
                        THEN SeqNode([i \in 1..Len(n.s) |-> ResolveUrlEntry(n.s[i], base)])
                        ELSE n
    IN IF ~IsMap(tree) THEN tree
       ELSE MapNode([k \in DOMAIN tree.m |->
              IF k \in {"textures", "sources"} /\ IsMap(tree.m[k]) THEN each(tree.m[k])
              ELSE IF k = "fonts" /\ IsMap(tree.m[k])
                   THEN MapNode([j \in DOMAIN tree.m[k].m |-> font(tree.m[k].m[j])])
                   ELSE tree.m[k]])

\* m_sceneNodes[url]: operator[] default-constructs a missing SceneNode.
NodeAt(nodes, url) == IF url \in DOMAIN nodes THEN nodes[url] ELSE EmptySceneNode

PutNode(nodes, url, n) ==
    [u \in (DOMAIN nodes) \cup {url} |-> IF u = url THEN n ELSE nodes[u]]

\* m_sceneNodes.emplace(url, SceneNode{}): no effect when the key exists.
Emplace(nodes, url) == IF url \in DOMAIN nodes THEN nodes ELSE PutNode(nodes, url, EmptySceneNode)

\* Importer::getResolvedImportUrls
GetResolvedImportUrls(sceneNode, baseUrl) ==
    IF IsMap(sceneNode) /\ HasKey(sceneNode, "import")
    THEN LET import == sceneNode.m["import"]
             base == BaseOf(baseUrl)
         IN
         IF IsScalar(import) THEN <<Resolve(base, import.v)>>
         ELSE IF IsSequence(import)
              THEN LET sc == SelectSeq(import.s, IsScalar) IN
                   [i \in 1..Len(sc) |-> Resolve(base, sc[i].v)]
              ELSE <<>>
    ELSE <<>>

\* The URLs addSceneYaml pushes: imports not yet a key of m_sceneNodes.
NewImports(nodes, imports) == SelectSeq(imports, LAMBDA u : u \notin DOMAIN nodes)

\* Importer::addSceneYaml: the SceneNode map and queue after parsing `yaml`
\* for sceneUrl.
AddSceneYaml(nodes, queue, sceneUrl, yaml) ==
    LET withNode == Emplace(nodes, sceneUrl)
        old == withNode[sceneUrl]
    IN IF yaml = Unparsable
       THEN [nodes |-> withNode, queue |-> queue]
       ELSE IF ~IsMap(yaml)
       THEN [nodes |-> PutNode(withNode, sceneUrl, [old EXCEPT !.yaml = yaml]),
             queue |-> queue]
       ELSE LET imports == GetResolvedImportUrls(yaml, sceneUrl)
                new == [yaml |-> RemoveKey(yaml, "import"), imports |-> imports,
                        pendingUrlNodes |-> GetTextureUrlNodes(yaml)]
            IN [nodes |-> PutNode(withNode, sceneUrl, new),
                queue |-> queue \o NewImports(withNode, imports)]

\* An entry may be the base scene file: its extension is "yaml" or "yml"
\* and its path holds no '/' (line 135).
IsBaseEntry(path) ==
    /\ PathExtension(path[Len(path)]) \in {"yaml", "yml"}
    /\ Len(path) = 1

\* A search that takes the last entry that may be the base.
RECURSIVE LastBase(_, _)
LastBase(entries, i) ==
    IF i > Len(entries) THEN 0
    ELSE IF LastBase(entries, i + 1) # 0 THEN LastBase(entries, i + 1)
    ELSE IF IsBaseEntry(entries[i]) THEN i ELSE 0

\* Lines 131-146: the loop over the entries from index i on ends at the
\* first entry that may be the base; 0 when it finds none.
RECURSIVE FindBase(_, _)
FindBase(entries, i) ==
    IF i > Len(entries) THEN 0
    ELSE IF IsBaseEntry(entries[i]) THEN i
    ELSE FindBase(entries, i + 1)

\* ZipArchive::findEntry: the index of the entry with the path, 0 for none.
FindEntry(entries, path) ==
    IF \E i \in 1..Len(entries) : entries[i] = path
    THEN CHOOSE i \in 1..Len(entries) : entries[i] = path
    ELSE 0

\* Importer::addSceneData for the response to sceneUrl. A document is
\* parsed by addSceneYaml. Of an archive the first base entry, when there is
\* one, is parsed, and the archive is kept under its URL (emplace: an
\* archive already kept stays). zipBase records the entry taken, 0 for none.
AddSceneData(sceneUrl, response) ==
    IF ~IsZipArchiveUrl(sceneUrl)
    THEN LET r == AddSceneYaml(m_sceneNodes, m_sceneQueue, sceneUrl, response.yaml) IN
         /\ m_sceneNodes' = r.nodes
         /\ m_sceneQueue' = r.queue
         /\ parseCount' = [parseCount EXCEPT ![sceneUrl] = @ + 1]
         /\ UNCHANGED <<m_zipArchives, zipBase>>
    ELSE LET entries == IF "zip" \in DOMAIN response THEN response.zip ELSE <<>>
             base == FindBase(entries, 1)
             r == IF base = 0 THEN [nodes |-> m_sceneNodes, queue |-> m_sceneQueue]
                  ELSE AddSceneYaml(m_sceneNodes, m_sceneQueue, sceneUrl,
                                    EntryDoc(entries[base], FileOf(sceneUrl)))
         IN /\ m_sceneNodes' = r.nodes
            /\ m_sceneQueue' = r.queue
            /\ parseCount' = [parseCount EXCEPT ![sceneUrl] =
                                 @ + (IF base = 0 THEN 0 ELSE 1)]
            /\ m_zipArchives' =
                 IF sceneUrl \in DOMAIN m_zipArchives THEN m_zipArchives
                 ELSE [u \in (DOMAIN m_zipArchives) \cup {sceneUrl} |->
                         IF u = sceneUrl THEN entries ELSE m_zipArchives[u]]
            /\ zipBase' = [u \in (DOMAIN zipBase) \cup {sceneUrl} |->
                             IF u = sceneUrl THEN base ELSE zipBase[u]]

\* Line 286, `target = import` (Node::operator=): the cell of the target
\* takes the reference of the import. A cell that came with a document stays
\* that document's; the children of an assigned map are the import's cells.
AssignNode(target, import) ==
    IF IsScalar(import) /\ "cell" \in DOMAIN import
    THEN [import EXCEPT !.cell = IF IsScalar(target) /\ "cell" \in DOMAIN target
                                 THEN target.cell ELSE TreeCell]
    ELSE import

\* A merge in which what the target already holds wins.
FirstWins(target, import) == IF target = [t |-> "null"] THEN import ELSE target

\* Importer::mergeMapFields: the value of `target` after merging `import`
\* into it. Unless both are maps the import replaces the target.
RECURSIVE MergeMapFields(_, _)
MergeMapFields(target, import) ==
    IF ~IsMap(target) \/ ~IsMap(import)
    THEN AssignNode(target, import)
    ELSE MapNode([key \in (DOMAIN target.m) \cup (DOMAIN import.m) |->
                    IF key \in DOMAIN import.m
                    THEN MergeMapFields(Child(target, key), import.m[key])
                    ELSE target.m[key]])

\* A test that takes no scalar for a texture name.
NeverNamed(textures, v) == FALSE

\* Line 99, textures[node.Scalar()]: the scalar is a key of the merged
\* textures map.
IsNamedTexture(textures, v) == Len(v) = 1 /\ HasKey(textures, v[1])

\* Lines 97-102 for one handle of the document at sceneUrl. The handle
\* reaches the tree when the tree holds the document's cell at the position
\* or a cell that refers to the document's data; else the assignment
\* changes data the tree does not share.
RewriteNode(tree, textures, sceneUrl, path) ==
    LET node == NodeAtPath(tree, path) IN
    IF /\ IsScalar(node) /\ "cell" \in DOMAIN node
       /\ FileOf(sceneUrl) \in {node.cell, node.ref}
       /\ ~IsNamedTexture(textures, node.v)
    THEN SetScalarAt(tree, path, ResolveUrl(BaseOf(sceneUrl), node.v))
    ELSE tree

RECURSIVE RewriteNodes(_, _, _, _)
RewriteNodes(tree, textures, sceneUrl, paths) ==
    IF paths = {} THEN tree
    ELSE LET path == CHOOSE q \in paths : TRUE IN
         RewriteNodes(RewriteNode(tree, textures, sceneUrl, path), textures,
                      sceneUrl, paths \ {path})

\* The orders in which a loop over the unordered map may visit its keys.
VisitOrders(nodes) ==
    {o \in [1..Cardinality(DOMAIN nodes) -> DOMAIN nodes] :
        \A i, j \in DOMAIN o : i # j => o[i] # o[j]}

\* Lines 91-104: the tree after every document's handles were visited in
\* the given order.
RECURSIVE RewriteScenes(_, _, _, _)
RewriteScenes(tree, textures, nodes, order) ==
    IF order = <<>> THEN tree
    ELSE RewriteScenes(RewriteNodes(tree, textures, Head(order),
                                    nodes[Head(order)].pendingUrlNodes),
                       textures, nodes, Tail(order))

\* An import list left as it was parsed.
PruneNothing(imports, done) == imports

\* Lines 259-265: the import list without the URLs already imported.
PruneImports(imports, done) == SelectSeq(imports, LAMBDA i : i \notin done)

(***************************************************************************)
(* Importer::loadSceneData, step by step                                   *)
(***************************************************************************)

NoUrl == <<"none", "none">>
NoHandle == 0

\* No URL is being taken through the zip URL functions.
NoRoundTrip == [step |-> "none"]

\* The URLs a load of world `w` can name: those of its archives' entries
\* only when it has archives.
UrlsOf(w) == IF "zip" \in DOMAIN w THEN Urls \cup ZipUrls ELSE Urls

InitImporterWith(W, R) ==
    /\ pc = "begin"
    /\ m_sceneQueue = <<>>
    /\ m_sceneNodes = <<>>
    /\ m_canceled = FALSE
    /\ m_urlRequests = <<>>
    /\ activeDownloads = 0
    /\ nextUrlToImport = NoUrl
    /\ handle = NoHandle
    /\ inflight = {}
    /\ nextHandle = 1
    /\ cancelIssued = {}
    /\ world \in W
    /\ fetchCount = [u \in UrlsOf(world) |-> 0]
    /\ parseCount = [u \in UrlsOf(world) |-> 0]
    /\ stack = <<>>
    /\ imported = {}
    /\ mergeLog = <<>>
    /\ root = Null
    /\ m_zipArchives = <<>>
    /\ zipQueue = <<>>
    /\ zipLog = <<>>
    /\ zipBase = <<>>
    /\ roundTrip \in R

InitImporterIn(W) == InitImporterWith(W, {NoRoundTrip})

InitImporter == InitImporterIn(Worlds)

\* Lines 26-28, inline scene text: the root is parsed before the loop.
BeginInline ==
    /\ pc = "begin"
    /\ ~Response(world, FileOf(SceneUrl)).error
    /\ LET r == AddSceneYaml(m_sceneNodes, m_sceneQueue, SceneUrl,
                             Response(world, FileOf(SceneUrl)).yaml) IN
         /\ m_sceneNodes' = r.nodes
         /\ m_sceneQueue' = r.queue
    /\ parseCount' = [parseCount EXCEPT ![SceneUrl] = @ + 1]
    /\ pc' = "top"
    /\ UNCHANGED <<m_canceled, m_urlRequests, activeDownloads, nextUrlToImport, handle,
                   inflight, nextHandle, cancelIssued, fetchCount, world, mergeVars,
                   mapVars, clientVars, zipVars>>

\* Lines 29-32, no inline text: the root URL is queued.
BeginUrl ==
    /\ pc = "begin"
    /\ m_sceneQueue' = Append(m_sceneQueue, SceneUrl)
    /\ pc' = "top"
    /\ UNCHANGED <<m_sceneNodes, m_canceled, m_urlRequests, activeDownloads,
                   nextUrlToImport, handle, platformVars, world, mergeVars, mapVars, clientVars, zipVars>>

\* Lines 52-56 (under m_sceneMutex): take the back of the queue and reserve
\* its SceneNode.
TakeNext ==
    /\ nextUrlToImport' = m_sceneQueue[Len(m_sceneQueue)]
    /\ m_sceneQueue' = SubSeq(m_sceneQueue, 1, Len(m_sceneQueue) - 1)
    /\ m_sceneNodes' = Emplace(m_sceneNodes, m_sceneQueue[Len(m_sceneQueue)])
    /\ pc' = "inc"

\* Lines 41 and 48: m_sceneQueue.empty() || m_canceled
Idle == m_sceneQueue = <<>> \/ m_canceled

\* What the step loadSceneData takes at a position reads or writes of the
\* scene queue, the SceneNode map and the handle list: lines 26-32 before
\* the loop, 41-56 and 79 in it, 88-106 behind it.
Accesses(p) ==
    CASE p = "begin"                       -> {"m_sceneQueue", "m_sceneNodes"}
      [] p \in {"top", "woken"}            -> {"m_sceneQueue", "m_sceneNodes"}
      [] p = "record"                      -> {"m_urlRequests"}
      [] p \in {"merge", "import", "finish"} -> {"m_sceneNodes"}
      [] OTHER                             -> {}

\* A loop that takes no lock.
HoldsNoMutex(p) == FALSE

\* The positions whose step runs inside a std::unique_lock on m_sceneMutex:
\* the block of lines 38-57 and the push_back of lines 78-79.
HoldsMutex(p) == p \in {"top", "woken", "record"}

\* A loop that leaves as soon as it has nothing to dequeue.
LeavesWhenIdle(active) == TRUE

\* Line 42: the loop is left only when no download is active.
NoActiveDownloads(active) == active = 0

\* Lines 39-57, entered from the top of the loop.
LoopTop ==
    /\ pc = "top"
    /\ IF Idle
       THEN /\ pc' = IF NoActiveDownloads(activeDownloads) THEN "merge" ELSE "wait"
            /\ UNCHANGED <<m_sceneQueue, m_sceneNodes, nextUrlToImport>>
       ELSE TakeNext
    /\ UNCHANGED <<m_canceled, m_urlRequests, activeDownloads, handle, platformVars,
                   world, mergeVars, mapVars, clientVars, zipVars>>

\* Lines 48-57 after condition.wait returned.
AfterWait ==
    /\ pc = "woken"
    /\ IF Idle
       THEN /\ pc' = "top"
            /\ UNCHANGED <<m_sceneQueue, m_sceneNodes, nextUrlToImport>>
       ELSE TakeNext
    /\ UNCHANGED <<m_canceled, m_urlRequests, activeDownloads, handle, platformVars,
                   world, mergeVars, mapVars, clientVars, zipVars>>

\* condition.wait may return without a notification.
SpuriousWake ==
    /\ pc = "wait"
    /\ pc' = "woken"
    /\ UNCHANGED <<m_sceneQueue, m_sceneNodes, m_canceled, m_urlRequests,
                   activeDownloads, nextUrlToImport, handle, platformVars, world,
                   mergeVars, mapVars, clientVars, zipVars>>

\* Line 72
IncActive ==
    /\ pc = "inc"
    /\ activeDownloads' = activeDownloads + 1
    /\ pc' = "start"
    /\ UNCHANGED <<m_sceneQueue, m_sceneNodes, m_canceled, m_urlRequests,
                   nextUrlToImport, handle, platformVars, world, mergeVars, mapVars, clientVars, zipVars>>

\* Lines 74-77: Platform::startUrlRequest for a URL whose scheme is not zip.
StartRequest ==
    /\ pc = "start"
    /\ nextUrlToImport[1] # ZipScheme
    /\ handle' = nextHandle
    /\ nextHandle' = nextHandle + 1
    /\ inflight' = inflight \cup {[h |-> nextHandle, url |-> nextUrlToImport]}
    /\ fetchCount' = [fetchCount EXCEPT ![nextUrlToImport] = @ + 1]
    /\ pc' = "record"
    /\ UNCHANGED <<m_sceneQueue, m_sceneNodes, m_canceled, m_urlRequests,
                   activeDownloads, nextUrlToImport, cancelIssued, parseCount, world,
                   mergeVars, mapVars, clientVars, zipVars>>

\* Lines 78-79 (under m_sceneMutex)
RecordHandle ==
    /\ pc = "record"
    /\ m_urlRequests' = Append(m_urlRequests, handle)
    /\ handle' = NoHandle
    /\ pc' = "top"
    /\ UNCHANGED <<m_sceneQueue, m_sceneNodes, m_canceled, activeDownloads,
                   nextUrlToImport, platformVars, world, mergeVars, mapVars, clientVars, zipVars>>

\* A callback that returns without waking the waiting loop.
NotifyNobody(p) == p

\* Line 69, condition.notify_one(): wakes the loop when it is waiting.
NotifyOne(p) == IF p = "wait" THEN "woken" ELSE p

\* What the platform may deliver for request r: what the URL serves, or an
\* error once the request was cancelled.
Deliverable(r) ==
    {Response(world, FileOf(r.url))}
    \cup (IF r.h \in cancelIssued THEN {ErrorResponse} ELSE {})

\* Lines 59-70: the callback for url (under m_sceneMutex).
Callback(url, response) ==
    /\ IF response.error
       THEN UNCHANGED <<m_sceneNodes, m_sceneQueue, parseCount, m_zipArchives, zipBase>>
       ELSE AddSceneData(url, response)
    /\ activeDownloads' = activeDownloads - 1
    /\ pc' = NotifyOne(pc)

\* The platform runs the callback of request r.
FetchCallback(r) ==
    /\ r \in inflight
    /\ inflight' = inflight \ {r}
    /\ \E response \in Deliverable(r) : Callback(r.url, response)
    /\ UNCHANGED <<m_canceled, m_urlRequests, nextUrlToImport, handle, nextHandle,
                   cancelIssued, fetchCount, world, mergeVars, mapVars, clientVars,
                   zipQueue, zipLog, roundTrip>>

\* Lines 74-75 and 154-159: readFromZip hands the URL to m_zipWorker and
\* returns; no handle is recorded.
ReadFromZip ==
    /\ pc = "start"
    /\ nextUrlToImport[1] = ZipScheme
    /\ zipQueue' = Append(zipQueue, nextUrlToImport)
    /\ pc' = "top"
    /\ UNCHANGED <<m_sceneQueue, m_sceneNodes, m_canceled, m_urlRequests,
                   activeDownloads, nextUrlToImport, handle, platformVars, world,
                   mergeVars, mapVars, clientVars, m_zipArchives, zipLog, zipBase,
                   roundTrip>>

\* Lines 160-180: the response the task builds from the archive of the URL.
ZipResponse(archives, url) ==
    LET source == ArchiveOf(url)
        zipEntryPath == SubSeq(url, 3, Len(url))
    IN IF source \in DOMAIN archives /\ FindEntry(archives[source], zipEntryPath) # 0
       THEN [error |-> FALSE, yaml |-> EntryDoc(zipEntryPath, FileOf(url))]
       ELSE ErrorResponse

\* A callback of the platform that may insert into m_zipArchives while the
\* task of m_zipWorker searches it: the task reads the map without
\* m_sceneMutex (line 164), the callback writes it under the mutex (149).
ArchiveArriving ==
    \E r \in inflight : IsZipArchiveUrl(r.url) /\ ~Response(world, FileOf(r.url)).error

\* Lines 160-182: m_zipWorker runs the task of the URL at the head of its
\* queue and calls the callback. A search that races with an insertion may
\* miss the archive.
ZipWorkerRun ==
    /\ zipQueue # <<>>
    /\ LET url == Head(zipQueue) IN
       \E response \in {ZipResponse(m_zipArchives, url)}
                       \cup (IF ArchiveArriving THEN {ErrorResponse} ELSE {}) :
          /\ Callback(url, response)
          /\ zipLog' = Append(zipLog, [url |-> url, response |-> response,
                                       raced |-> ArchiveArriving])
    /\ zipQueue' = Tail(zipQueue)
    /\ UNCHANGED <<m_canceled, m_urlRequests, nextUrlToImport, handle, requestVars,
                   world, mergeVars, mapVars, clientVars, roundTrip>>

\* Importer::cancelLoading (under m_sceneMutex)
CancelLoading ==
    /\ pc \notin {"begin", "done"}
    /\ ~m_canceled
    /\ m_canceled' = TRUE
    /\ cancelIssued' = cancelIssued \cup Range(m_urlRequests)
    /\ UNCHANGED <<pc, m_sceneQueue, m_sceneNodes, m_urlRequests, activeDownloads,
                   nextUrlToImport, handle, inflight, nextHandle, fetchCount,
                   parseCount, world, mergeVars, mapVars, clientVars, zipVars>>

\* Lines 249-267: entering importScenesRecursive(root, sceneUrl, imported)
\* pushes a frame, marks the URL imported and prunes its import list in place.
EnterScene(sceneUrl) ==
    LET sceneNode == NodeAt(m_sceneNodes, sceneUrl)
        kept == PruneImports(sceneNode.imports, imported \cup {sceneUrl})
    IN /\ m_sceneNodes' = PutNode(m_sceneNodes, sceneUrl,
                                  [sceneNode EXCEPT !.imports = kept])
       /\ imported' = imported \cup {sceneUrl} \cup Range(kept)
       /\ stack' = Append(stack, [url |-> sceneUrl, i |-> 1])

\* A return path that merges whatever was fetched, cancelled or not.
IgnoresCancel(canceled) == FALSE

\* Line 83: if (m_canceled) { return Node(); }
ReturnsEmpty(canceled) == canceled

\* Lines 83-88: after the loop, return an empty Node when cancelled, else
\* start the recursive merge at the root URL.
LeaveLoop ==
    /\ pc = "merge"
    /\ IF ReturnsEmpty(m_canceled)
       THEN /\ pc' = "done"
            /\ root' = Null
            /\ UNCHANGED <<m_sceneNodes, imported, stack>>
       ELSE /\ pc' = "import"
            /\ EnterScene(SceneUrl)
            /\ UNCHANGED root
    /\ UNCHANGED <<m_sceneQueue, m_canceled, m_urlRequests, activeDownloads,
                   nextUrlToImport, handle, platformVars, world, mergeLog, mapVars, clientVars, zipVars>>

Top == stack[Len(stack)]

\* Deepest nesting of importScenesRecursive calls the model follows.
MaxDepth == 6

\* Lines 269-271: the next recursive call of the frame on top.
ImportNext ==
    /\ pc = "import"
    /\ Top.i <= Len(NodeAt(m_sceneNodes, Top.url).imports)
    /\ Len(stack) < MaxDepth
    /\ LET sceneUrl == NodeAt(m_sceneNodes, Top.url).imports[Top.i]
           sceneNode == NodeAt(m_sceneNodes, sceneUrl)
           kept == PruneImports(sceneNode.imports, imported \cup {sceneUrl})
       IN /\ m_sceneNodes' = PutNode(m_sceneNodes, sceneUrl,
                                     [sceneNode EXCEPT !.imports = kept])
          /\ imported' = imported \cup {sceneUrl} \cup Range(kept)
          /\ stack' = Append([stack EXCEPT ![Len(stack)].i = @ + 1],
                             [url |-> sceneUrl, i |-> 1])
    /\ UNCHANGED <<pc, m_sceneQueue, m_canceled, m_urlRequests, activeDownloads,
                   nextUrlToImport, handle, platformVars, world, mergeLog, root, mapVars, clientVars, zipVars>>

\* Lines 273-276: all imports of the frame on top are merged; merge its own
\* document, resolve the URLs of the tree against its URL and return to the
\* caller.
MergeScene ==
    /\ pc = "import"
    /\ Top.i > Len(NodeAt(m_sceneNodes, Top.url).imports)
    /\ root' = ResolveSceneUrls(MergeMapFields(root, NodeAt(m_sceneNodes, Top.url).yaml),
                                Top.url)
    /\ mergeLog' = Append(mergeLog, Top.url)
    /\ stack' = SubSeq(stack, 1, Len(stack) - 1)
    /\ pc' = IF Len(stack) = 1 THEN "finish" ELSE "import"
    /\ UNCHANGED <<m_sceneQueue, m_sceneNodes, m_canceled, m_urlRequests,
                   activeDownloads, nextUrlToImport, handle, platformVars, world,
                   imported, mapVars, clientVars, zipVars>>

\* Lines 90-108: rewrite the texture nodes, visiting m_sceneNodes in the
\* order the unordered map yields, clear the map and return the tree.
Finish ==
    /\ pc = "finish"
    /\ \E order \in VisitOrders(m_sceneNodes) :
         root' = RewriteScenes(root, Child(root, "textures"), m_sceneNodes, order)
    /\ m_sceneNodes' = <<>>
    /\ pc' = "done"
    /\ UNCHANGED <<m_sceneQueue, m_canceled, m_urlRequests, activeDownloads,
                   nextUrlToImport, handle, platformVars, world, stack, imported,
                   mergeLog, mapVars, clientVars, zipVars>>

(***************************************************************************)
(* Map::Impl: scene replacement and the ordered worker                     *)
(***************************************************************************)

\* Most Map::loadScene calls in one behaviour.
MaxCalls == 3

SceneIds == 0..MaxCalls

NoScene == -1
NoTask == [kind |-> "none", scene |-> NoScene]

LoadTask(s) == [kind |-> "load", scene |-> s]
DisposeTask(s) == [kind |-> "dispose", scene |-> s]

\* Map::Impl::Impl constructs the first scene; nothing is queued.
InitMap ==
    /\ scene = 0
    /\ alive = {0}
    /\ destroyCount = [s \in SceneIds |-> 0]
    /\ destroyedBy = [s \in SceneIds |-> "none"]
    /\ useCount = [s \in SceneIds |-> 0]
    /\ canceledScenes = {}
    /\ loadedScenes = {}
    /\ nextSceneId = 1
    /\ asyncQueue = <<>>
    /\ running = NoTask
    /\ mainPc = "idle"
    /\ oldScene = NoScene
    /\ onSceneReady = FALSE
    /\ leakWarning = FALSE
    /\ readyLog = <<>>
    /\ workerLog = <<>>
    /\ submitted = <<>>
    /\ calls = <<>>

\* Scene::~Scene of scene s, run by `who`.
DestroyScene(s, who) ==
    /\ alive' = (alive \ {s}) \cup (IF who = "sync" THEN {nextSceneId} ELSE {})
    /\ destroyCount' = [destroyCount EXCEPT ![s] = @ + 1]
    /\ destroyedBy' = [destroyedBy EXCEPT ![s] = who]

\* if (onSceneReady) { onSceneReady(id, errors); }
Notify(log, id, thread) ==
    IF onSceneReady
    THEN Append(log, [id |-> id, thread |-> thread, canceled |-> id \in canceledScenes])
    ELSE log

\* Map::setSceneReadyListener
SetSceneReadyListener ==
    /\ mainPc = "idle"
    /\ onSceneReady' = ~onSceneReady
    /\ UNCHANGED <<scene, alive, destroyCount, destroyedBy, useCount, canceledScenes,
                   loadedScenes, nextSceneId, asyncQueue, running, mainPc, oldScene,
                   leakWarning, readyLog, workerLog, submitted, calls, impVars, clientVars>>

\* Map::Impl::loadScene, line 143: the new scene replaces the current one,
\* whose destructor runs inline. The new scene comes with a TileManager and
\* a MarkerManager of its own.
LoadSceneReplace ==
    /\ mainPc = "idle"
    /\ nextSceneId <= MaxCalls
    /\ scene' = nextSceneId
    /\ nextSceneId' = nextSceneId + 1
    /\ DestroyScene(scene, "sync")
    /\ mainPc' = "sync"
    /\ client' = [client EXCEPT !.tileManager = {}, !.markers = 0,
                                !.reusable = (0..(nextSceneId - 1)) \ alive]
    /\ UNCHANGED <<useCount, canceledScenes, loadedScenes, asyncQueue, running,
                   oldScene, onSceneReady, leakWarning, readyLog, workerLog,
                   submitted, calls, impVars>>

\* The id of a scene other than the one the call made current.
ReturnedOld(cur, old) == old

\* The id Map::Impl::loadScene and loadSceneAsync return: scene->id.
ReturnedId(cur, old) == cur

\* The scenes held by dispose tasks that have not finished.
PendingDispose ==
    {t.scene : t \in {u \in Range(asyncQueue) \cup {running} : u.kind = "dispose"}}

\* The record of a Map::loadScene call, taken when it returns.
CallRecord(async, replaced, waiting) ==
    [async |-> async, made |-> nextSceneId - 1, replaced |-> replaced,
     id |-> ReturnedId(scene, replaced), live |-> Cardinality(alive),
     waiting |-> Cardinality(waiting)]

\* Map::Impl::loadScene, lines 145-151: load, notify, return the id.
LoadSceneLoad ==
    /\ mainPc = "sync"
    /\ loadedScenes' = loadedScenes \cup {scene}
    /\ readyLog' = Notify(readyLog, scene, "main")
    /\ calls' = Append(calls, CallRecord(FALSE, NoScene, PendingDispose))
    /\ mainPc' = "idle"
    /\ UNCHANGED <<scene, alive, destroyCount, destroyedBy, useCount, canceledScenes,
                   nextSceneId, asyncQueue, running, oldScene, onSceneReady,
                   leakWarning, workerLog, submitted, impVars, clientVars>>

\* A replacement that leaves the outgoing scene's tasks running.
CancelNothing(cancelled, s) == cancelled

\* Line 160: oldScene->cancelTasks()
CancelTasks(cancelled, s) == cancelled \cup {s}

\* The two tasks enqueued in the opposite order.
DisposeFirst(new, old) == <<DisposeTask(old), LoadTask(new)>>

\* The tasks loadSceneAsync enqueues, in order (lines 177 and 187).
AsyncTasks(new, old) == <<LoadTask(new), DisposeTask(old)>>

\* Map::Impl::loadSceneAsync, lines 158-185: move the current scene into
\* oldScene, cancel it, construct the new scene and enqueue its load task.
LoadSceneAsyncLoad ==
    /\ mainPc = "idle"
    /\ nextSceneId <= MaxCalls
    /\ oldScene' = scene
    /\ useCount' = [useCount EXCEPT ![scene] = 1]
    /\ canceledScenes' = CancelTasks(canceledScenes, scene)
    /\ scene' = nextSceneId
    /\ alive' = alive \cup {nextSceneId}
    /\ nextSceneId' = nextSceneId + 1
    /\ asyncQueue' = Append(asyncQueue, AsyncTasks(nextSceneId, scene)[1])
    /\ submitted' = Append(submitted, AsyncTasks(nextSceneId, scene)[1])
    /\ mainPc' = "async"
    /\ client' = [client EXCEPT !.tileManager = {}, !.markers = 0,
                                !.reusable = (0..(nextSceneId - 1)) \ alive]
    /\ UNCHANGED <<destroyCount, destroyedBy, loadedScenes, running, onSceneReady,
                   leakWarning, readyLog, workerLog, calls, impVars>>

\* Map::Impl::loadSceneAsync, lines 187-194: enqueue the dispose task, which
\* takes over oldScene, and return the id.
LoadSceneAsyncDispose ==
    /\ mainPc = "async"
    /\ asyncQueue' = Append(asyncQueue, AsyncTasks(scene, oldScene)[2])
    /\ submitted' = Append(submitted, AsyncTasks(scene, oldScene)[2])
    /\ oldScene' = NoScene
    /\ calls' = Append(calls, CallRecord(TRUE, oldScene, PendingDispose \cup {oldScene}))
    /\ mainPc' = "idle"
    /\ UNCHANGED <<scene, alive, destroyCount, destroyedBy, useCount, canceledScenes,
                   loadedScenes, nextSceneId, running, onSceneReady, leakWarning,
                   readyLog, workerLog, impVars, clientVars>>

\* AsyncWorker: the worker takes the task at the head of the queue.
WorkerTake ==
    /\ running = NoTask
    /\ asyncQueue # <<>>
    /\ running' = Head(asyncQueue)
    /\ asyncQueue' = Tail(asyncQueue)
    /\ workerLog' = Append(workerLog, [ev |-> "start", task |-> Head(asyncQueue)])
    /\ UNCHANGED <<scene, alive, destroyCount, destroyedBy, useCount, canceledScenes,
                   loadedScenes, nextSceneId, mainPc, oldScene, onSceneReady,
                   leakWarning, readyLog, submitted, calls, impVars, clientVars>>

\* The ids a load task may read through its raw pointer: the scene's own id
\* while the scene is alive; once it was destroyed, what its memory held or the
\* id of a scene constructed later in the memory it freed.
Observed(s) ==
    IF s \in alive THEN {s}
    ELSE {s} \cup {t \in SceneIds : t > s + 1 /\ t < nextSceneId}

\* A load task that reports the scene the Map holds when the task runs.
CurrentScene(newScene, current) == current

\* Line 181: the scene whose id the load task reports, newScene.
NotifiedScene(newScene, current) == newScene

\* Lines 177-185: the load task of the scene newScene points to. While it
\* loads, the prefetch callback (lines 163-170) adds its job to the jobQueue.
RunLoad ==
    /\ running.kind = "load"
    /\ \E id \in Observed(NotifiedScene(running.scene, scene)) :
         readyLog' = Notify(readyLog, id, "worker")
    /\ loadedScenes' = loadedScenes \cup {running.scene}
    /\ workerLog' = Append(workerLog, [ev |-> "end", task |-> running])
    /\ running' = NoTask
    /\ client' = [client EXCEPT !.jobQueue = Append(@, running.scene)]
    /\ UNCHANGED <<scene, alive, destroyCount, destroyedBy, useCount, canceledScenes,
                   nextSceneId, asyncQueue, mainPc, oldScene, onSceneReady,
                   leakWarning, submitted, calls, impVars>>

\* A reset that leaves the reference in place.
KeepReference(n) == n

\* Line 191, oldScene.reset(): the use count after the task let go.
Release(n) == n - 1

\* Lines 187-192: the dispose task drops the shared_ptr it holds.
RunDispose ==
    /\ running.kind = "dispose"
    /\ leakWarning' = (leakWarning \/ useCount[running.scene] # 1)
    /\ useCount' = [useCount EXCEPT ![running.scene] = Release(@)]
    /\ IF Release(useCount[running.scene]) = 0
       THEN DestroyScene(running.scene, "dispose")
       ELSE UNCHANGED <<alive, destroyCount, destroyedBy>>
    /\ workerLog' = Append(workerLog, [ev |-> "end", task |-> running])
    /\ running' = NoTask
    /\ UNCHANGED <<scene, canceledScenes, loadedScenes, nextSceneId, asyncQueue,
                   mainPc, oldScene, onSceneReady, readyLog, submitted, calls, impVars, clientVars>>

(***************************************************************************)
(* Map: client calls, update and the client tile sources                   *)
(***************************************************************************)

\* Most client tile sources in one behaviour.
MaxSources == 1

SourceIds == 1..MaxSources

\* Most markers a scene holds in the model.
MaxMarkers == 1

\* The zoom levels setCameraPosition is called with.
Zooms == {0, 1}

\* struct ClientTileSource, lines 48-53.
NewClientTileSource == [added |-> FALSE, clear |-> FALSE, remove |-> FALSE]

\* What Map::update returned and did: the scene_loading flag, whether the
\* client tile sources were synced and whether Scene::update ran.
NoUpdate == [scene_loading |-> FALSE, synced |-> FALSE, ticked |-> FALSE]

\* No styles are under comparison.
NoStyles == [step |-> "none"]

\* The Map after construction.
NewClient ==
    [clientTileSources |-> <<>>,
     tileManager |-> {},
     replayed |-> {},
     lastSync |-> {},
     readyScenes |-> {},
     lastUpdate |-> NoUpdate,
     view |-> 0,
     markers |-> 0,
     jobQueue |-> <<>>,
     background |-> NoScene,
     reusable |-> {},
     prefetchedBy |-> {},
     shutdownLog |-> <<>>,
     compared |-> NoStyles]

InitClient == client = NewClient

\* Map::addTileSource (under tileSourceMutex): operator[] creates the entry.
AddTileSource(id) ==
    /\ shutdownLog = <<>>
    /\ client' = [client EXCEPT
         !.clientTileSources =
            [i \in (DOMAIN clientTileSources) \cup {id} |->
               IF i = id
               THEN [(IF id \in DOMAIN clientTileSources THEN clientTileSources[id]
                      ELSE NewClientTileSource) EXCEPT !.added = TRUE]
               ELSE clientTileSources[i]],
         !.replayed = replayed \cup {id}]
    /\ UNCHANGED <<impVars, mapVars>>

\* Map::removeTileSource (under tileSourceMutex): flags a known source.
RemoveTileSource(id) ==
    /\ shutdownLog = <<>>
    /\ client' = [client EXCEPT
         !.clientTileSources =
            IF id \in DOMAIN clientTileSources
            THEN [clientTileSources EXCEPT ![id].remove = TRUE]
            ELSE clientTileSources,
         !.replayed = replayed \ {id}]
    /\ UNCHANGED <<impVars, mapVars>>

\* Map::clearTileSource with _tiles set (under tileSourceMutex).
ClearTileSource(id) ==
    /\ shutdownLog = <<>>
    /\ client' = [client EXCEPT
         !.clientTileSources =
            IF id \in DOMAIN clientTileSources
            THEN [clientTileSources EXCEPT ![id].clear = TRUE]
            ELSE clientTileSources]
    /\ UNCHANGED <<impVars, mapVars>>

\* Map::setCameraPosition, lines 370-379: the view is set in the call.
SetCameraPosition(zoom) ==
    /\ mainPc = "idle"
    /\ shutdownLog = <<>>
    /\ client' = [client EXCEPT !.view = zoom]
    /\ UNCHANGED <<impVars, mapVars>>

\* Map::markerAdd, lines 759-761: the MarkerManager of the current scene
\* adds a marker in the call.
MarkerAdd ==
    /\ mainPc = "idle"
    /\ shutdownLog = <<>>
    /\ markers < MaxMarkers
    /\ client' = [client EXCEPT !.markers = markers + 1]
    /\ UNCHANGED <<impVars, mapVars>>

\* Map::markerRemoveAll, lines 823-826.
MarkerRemoveAll ==
    /\ mainPc = "idle"
    /\ shutdownLog = <<>>
    /\ markers > 0
    /\ client' = [client EXCEPT !.markers = 0]
    /\ UNCHANGED <<impVars, mapVars>>

\* An update that treats no update as the first of its scene.
NeverFirst(wasReady) == FALSE

\* Line 244: bool firstUpdate = !wasReady
FirstUpdate(wasReady) == ~wasReady

\* An entry whose added flag stays set.
KeepsAdded(ts) == [ts EXCEPT !.clear = FALSE]

\* Lines 747-754: the entry of a source that is not removed, after the sync.
SyncEntry(ts) == [ts EXCEPT !.added = FALSE, !.clear = FALSE]

\* Map::Impl::syncClientTileSources: the staged entries, the sources in the
\* TileManager and the TileManager calls made, after the loop over cts. A
\* call is marked as staged when a flag of the entry asked for it.
SyncClientTileSources(cts, tm, firstUpdate) ==
    LET removed == {i \in DOMAIN cts : cts[i].remove}
        kept == (DOMAIN cts) \ removed
        added == {i \in kept : cts[i].added \/ firstUpdate}
        cleared == {i \in kept : cts[i].clear}
    IN [cts |-> [i \in kept |-> SyncEntry(cts[i])],
        tm |-> (tm \ removed) \cup added,
        ops |-> {[op |-> "remove", id |-> i, staged |-> TRUE] : i \in removed}
                \cup {[op |-> "add", id |-> i, staged |-> cts[i].added] : i \in added}
                \cup {[op |-> "clear", id |-> i, staged |-> TRUE] : i \in cleared}]

\* Scene::completeScene: true once load() has finished.
CompleteScene(s) == s \in loadedScenes

\* An update that syncs and ticks whether the scene is complete or not.
AlwaysApplies(complete) == TRUE

\* Lines 237-247: the batch is applied and the scene ticked in the branch
\* in which completeScene returned true.
AppliesBatch(complete) == complete

\* A test that tells scenes apart by their identity.
SameScene(posted) == {posted = scene}

\* Line 165, `_scene == scene.get()`: the job compares the address it
\* captured with that of the current scene. The address of a scene that was
\* destroyed before the current one was constructed may be the address of
\* the current one.
SamePointer(posted) ==
    IF posted = scene THEN {TRUE}
    ELSE IF posted \in reusable THEN {TRUE, FALSE}
    ELSE {FALSE}

\* JobQueue::runJobs for the jobs of lines 164-168: the scenes whose job
\* passes the test and so prefetches tiles and sets the background.
RECURSIVE RunJobs(_)
RunJobs(jobs) ==
    IF jobs = <<>> THEN {{}}
    ELSE {(IF same THEN {Head(jobs)} ELSE {}) \cup rest :
            same \in SamePointer(Head(jobs)), rest \in RunJobs(Tail(jobs))}

\* Map::update, lines 219-261.
Update ==
    /\ mainPc = "idle"
    /\ shutdownLog = <<>>
    /\ LET wasReady == scene \in readyScenes
           complete == CompleteScene(scene)
           applies == AppliesBatch(complete)
           sync == SyncClientTileSources(clientTileSources, tileManager,
                                         FirstUpdate(wasReady))
       IN \E ran \in RunJobs(jobQueue) :
          client' = [client EXCEPT
            !.background = IF ran # {} THEN scene ELSE @,
            !.prefetchedBy = ran,
            !.jobQueue = <<>>,
            !.readyScenes = IF complete THEN readyScenes \cup {scene} ELSE readyScenes,
            !.clientTileSources = IF applies THEN sync.cts ELSE @,
            !.tileManager = IF applies THEN sync.tm ELSE @,
            !.lastSync = IF applies THEN sync.ops ELSE @,
            !.lastUpdate = [scene_loading |-> ~complete,
                            synced |-> applies,
                            ticked |-> applies]]
    /\ UNCHANGED <<impVars, mapVars>>

NextMap ==
    \/ SetSceneReadyListener
    \/ LoadSceneReplace
    \/ LoadSceneLoad
    \/ LoadSceneAsyncLoad
    \/ LoadSceneAsyncDispose
    \/ WorkerTake
    \/ RunLoad
    \/ RunDispose

\* The steps of the thread that runs loadSceneData.
LoaderStep ==
    \/ BeginInline
    \/ BeginUrl
    \/ LoopTop
    \/ AfterWait
    \/ IncActive
    \/ StartRequest
    \/ RecordHandle
    \/ LeaveLoop
    \/ ImportNext
    \/ MergeScene
    \/ Finish

\* loadSceneData and its callbacks, without a cancel from the owner.
NextLoad ==
    \/ BeginInline
    \/ BeginUrl
    \/ LoopTop
    \/ AfterWait
    \/ SpuriousWake
    \/ IncActive
    \/ StartRequest
    \/ RecordHandle
    \/ \E r \in inflight : FetchCallback(r)
    \/ LeaveLoop
    \/ ImportNext
    \/ MergeScene
    \/ Finish

Next ==
    \/ NextLoad
    \/ CancelLoading

Init == InitImporter /\ InitMap /\ InitClient

\* A scene file without imports: the importer at rest under the Map.
NoImports == [imports |-> [f \in Files |-> <<>>], failing |-> {}]

InitAtRest == Init /\ world = NoImports

\* One run of Importer::loadSceneData, with its owner free to cancel it.
Spec == Init /\ [][Next]_vars

\* The destructor taking the scene before it joins the worker.
SceneFirst == <<"platform", "scene", "worker", "jobs">>

\* Map::~Map, lines 114-123: platform->shutdown(), asyncWorker.reset(),
\* scene.reset(), jobQueue.stop().
ShutdownOrder == <<"platform", "worker", "scene", "jobs">>

\* The scenes held by the dispose tasks that wait in the queue.
QueuedDispose == {t.scene : t \in {u \in Range(asyncQueue) : u.kind = "dispose"}}

\* Map::~Map: the next step of the destructor. asyncWorker.reset() joins the
\* worker thread once its running task has returned and destroys the queued
\* tasks with the scenes their closures hold; scene.reset() destroys the
\* current scene.
Shutdown ==
    /\ mainPc = "idle"
    /\ Len(shutdownLog) < Len(ShutdownOrder)
    /\ LET step == ShutdownOrder[Len(shutdownLog) + 1]
       IN /\ client' = [client EXCEPT !.shutdownLog = Append(@, step)]
          /\ IF step = "worker"
             THEN /\ running = NoTask
                  /\ asyncQueue' = <<>>
                  /\ alive' = alive \ QueuedDispose
                  /\ destroyCount' = [s \in SceneIds |->
                        IF s \in QueuedDispose THEN destroyCount[s] + 1 ELSE destroyCount[s]]
                  /\ destroyedBy' = [s \in SceneIds |->
                        IF s \in QueuedDispose THEN "shutdown" ELSE destroyedBy[s]]
                  /\ useCount' = [s \in SceneIds |->
                        IF s \in QueuedDispose THEN 0 ELSE useCount[s]]
                  /\ UNCHANGED scene
             ELSE IF step = "scene"
             THEN /\ DestroyScene(scene, "shutdown")
                  /\ scene' = NoScene
                  /\ UNCHANGED <<asyncQueue, useCount>>
             ELSE UNCHANGED <<scene, alive, destroyCount, destroyedBy, asyncQueue, useCount>>
    /\ UNCHANGED <<canceledScenes, loadedScenes, nextSceneId, running, mainPc, oldScene,
                   onSceneReady, leakWarning, readyLog, workerLog, submitted, calls,
                   impVars>>

\* The calls the client makes while the Map exists.
MapCalls ==
    \/ SetSceneReadyListener
    \/ LoadSceneReplace
    \/ LoadSceneAsyncLoad

\* A Map that loads scenes and is destroyed.
NextShutdown ==
    \/ (shutdownLog = <<>> /\ MapCalls)
    \/ LoadSceneLoad
    \/ LoadSceneAsyncDispose
    \/ WorkerTake
    \/ RunLoad
    \/ RunDispose
    \/ Shutdown

SpecShutdown == InitAtRest /\ [][NextShutdown]_vars

\* Most scene loads of a behaviour of the client.
MaxReloads == 2

\* The tile-source calls of the client, the updates of the Map and the
\* asynchronous loads of scenes.
NextClient ==
    \/ \E id \in SourceIds : AddTileSource(id)
    \/ \E id \in SourceIds : RemoveTileSource(id)
    \/ \E id \in SourceIds : ClearTileSource(id)
    \/ Update
    \/ (nextSceneId <= MaxReloads /\ LoadSceneAsyncLoad)
    \/ LoadSceneAsyncDispose
    \/ WorkerTake
    \/ RunLoad
    \/ RunDispose

\* A client that stages tile sources and reloads the scene while the Map
\* updates.
SpecClient == InitAtRest /\ [][NextClient]_vars

\* The mutating calls of the client, the updates of the Map and the
\* synchronous loads of scenes.
NextCalls ==
    \/ \E id \in SourceIds : AddTileSource(id)
    \/ \E id \in SourceIds : RemoveTileSource(id)
    \/ \E id \in SourceIds : ClearTileSource(id)
    \/ \E zoom \in Zooms : SetCameraPosition(zoom)
    \/ MarkerAdd
    \/ MarkerRemoveAll
    \/ Update
    \/ (nextSceneId <= MaxReloads /\ LoadSceneReplace)
    \/ LoadSceneLoad

(***************************************************************************)
(* Style::compare                                                          *)
(***************************************************************************)

\* enum class Blending : uint8_t, in the order of its enumerators.
Blendings == <<"opaque", "add", "multiply", "inlay", "translucent", "overlay">>

\* static_cast<uint8_t>(mode)
BlendCode(mode) == (CHOOSE i \in DOMAIN Blendings : Blendings[i] = mode) - 1

\* Largest blend order of a style of the model.
MaxBlendOrder == 1

BlendOrders == (0 - 1)..MaxBlendOrder

\* The characters of style names and their codes.
CharCode(c) == CASE c = "a" -> 97 [] c = "b" -> 98

\* Style names, as character sequences: one is a prefix of another.
StyleNames == {<<"a">>, <<"a", "b">>, <<"b">>}

\* std::string operator<: lexicographic by character, a proper prefix first.
RECURSIVE StringLess(_, _)
StringLess(x, y) ==
    IF y = <<>> THEN FALSE
    ELSE IF x = <<>> THEN TRUE
    ELSE IF Head(x) # Head(y) THEN CharCode(Head(x)) < CharCode(Head(y))
    ELSE StringLess(Tail(x), Tail(y))

\* A comparison that looks at the blend order whatever the blend modes are.
CompareByOrder(a, b) ==
    IF a.order # b.order THEN a.order < b.order
    ELSE IF a.mode # b.mode THEN BlendCode(a.mode) < BlendCode(b.mode)
    ELSE StringLess(a.name, b.name)

\* Style::compare, part_002 lines 219-235.
Compare(a, b) ==
    IF a.mode # "opaque" /\ b.mode # "opaque" /\ a.order # b.order
    THEN a.order < b.order
    ELSE IF a.mode # b.mode THEN BlendCode(a.mode) < BlendCode(b.mode)
    ELSE StringLess(a.name, b.name)

StyleValues == [mode : Range(Blendings), order : BlendOrders, name : StyleNames]

\* Three styles with distinct names, not yet compared.
StyleInputs ==
    {[step |-> "start", list |-> <<a, b, c>>] :
        a \in {v \in StyleValues : v.name = <<"a">>},
        b \in {v \in StyleValues : v.name = <<"a", "b">>},
        c \in {v \in StyleValues : v.name = <<"b">>}}

\* Style::compare is called for every pair of the three styles.
CompareStyles ==
    /\ compared.step = "start"
    /\ client' = [client EXCEPT !.compared =
          [step |-> "compared", list |-> compared.list,
           less |-> [i \in 1..3 |-> [j \in 1..3 |->
                       Compare(compared.list[i], compared.list[j])]]]]
    /\ UNCHANGED <<impVars, mapVars>>

InitCompare ==
    /\ InitImporterIn({NoImports})
    /\ InitMap
    /\ client \in {[NewClient EXCEPT !.compared = in] : in \in StyleInputs}

\* Style::compare applied to styles of every blend mode and blend order.
SpecCompare == InitCompare /\ [][CompareStyles]_vars

\* Updates of the Map while scenes are loaded asynchronously.
NextPrefetch ==
    \/ Update
    \/ LoadSceneAsyncLoad
    \/ LoadSceneAsyncDispose
    \/ WorkerTake
    \/ RunLoad
    \/ RunDispose

\* A client that reloads the scene while the prefetch jobs of earlier
\* scenes wait for the next update.
SpecPrefetch == InitAtRest /\ [][NextPrefetch]_vars

\* A client that moves the camera, edits markers and stages tile sources.
SpecCalls == InitAtRest /\ [][NextCalls]_vars

\* Map::loadScene calls against the ordered worker.
SpecMap == InitAtRest /\ [][NextMap]_vars

\* The thread running loadSceneData keeps running, and the platform delivers
\* the callback of every request it started.
FairSpec ==
    /\ Init
    /\ [][NextLoad]_vars
    /\ WF_vars(LoaderStep)
    /\ WF_vars(\E r \in inflight : FetchCallback(r))

\* Most import references in the worlds the cancelled runs are explored in.
MaxCancelEdges == 3

InitCancel == Init /\ SumLen(world.imports, Files) <= MaxCancelEdges

\* Runs in which a document fails.
InitFail == InitImporterIn(FailWorlds) /\ InitMap /\ InitClient

SpecFail == InitFail /\ [][NextLoad]_vars

\* Loads of documents with styles, textures, sources and fonts, some of
\* them in another directory.
InitAssets == InitImporterIn(AssetWorlds) /\ InitMap /\ InitClient

SpecAssets == InitAssets /\ [][NextLoad]_vars

InitNested == InitImporterIn(NestedWorlds) /\ InitMap /\ InitClient

\* Loads of documents of which one has a nested `import` key.
SpecNested == InitNested /\ [][NextLoad]_vars

InitStyles == InitImporterIn(StyleWorlds) /\ InitMap /\ InitClient

\* loadSceneData for a root document given as text that imports nothing.
NextStyles ==
    \/ BeginInline
    \/ LoopTop
    \/ LeaveLoop
    \/ MergeScene
    \/ Finish

\* Loads of root documents with styles of every shape.
SpecStyles == InitStyles /\ [][NextStyles]_vars

\* Longest archive URL, in characters, taken through the zip URL functions.
MaxLen == 3

\* Longest entry path, in characters.
MaxPathLen == 2

\* The characters of the archive URLs: a letter, the separator, the percent
\* sign and the characters of the codes of '/' and '%'.
UrlChars == {"a", "/", "%", "2", "F", "5"}

ArchiveStrings == SeqsUpTo(UrlChars, MaxLen)

\* The entry paths: relative paths, which begin with no '/'.
PathStrings ==
    {q \in SeqsUpTo({"a", "/", "%"}, MaxPathLen) : q # <<>> /\ q[1] # "/"}

RoundTripInputs ==
    {[step |-> "start", archiveUrl |-> a, path |-> q] :
        a \in ArchiveStrings, q \in PathStrings}

\* The entry URL of path in the archive: getBaseUrlForZipArchive(archiveUrl)
\* resolved with the path (lines 222-231).
BuildEntryUrl ==
    /\ roundTrip.step = "start"
    /\ roundTrip' = [step |-> "built", archiveUrl |-> roundTrip.archiveUrl,
                     path |-> roundTrip.path,
                     entryUrl |-> ResolveString(
                         GetBaseUrlForZipArchive(roundTrip.archiveUrl), roundTrip.path)]
    /\ UNCHANGED <<loadVars, mapVars, clientVars>>

\* getArchiveUrlForZipEntry of the entry URL (line 162).
RecoverArchive ==
    /\ roundTrip.step = "built"
    /\ roundTrip' = [step |-> "done", archiveUrl |-> roundTrip.archiveUrl,
                     path |-> roundTrip.path, entryUrl |-> roundTrip.entryUrl,
                     source |-> GetArchiveUrlForZipEntry(roundTrip.entryUrl)]
    /\ UNCHANGED <<loadVars, mapVars, clientVars>>

NextZipUrl ==
    \/ BuildEntryUrl
    \/ RecoverArchive

InitZipUrl == InitImporterWith({NoImports}, RoundTripInputs) /\ InitMap /\ InitClient

\* Archive URLs and entry paths taken to an entry URL and back.
SpecZipUrl == InitZipUrl /\ [][NextZipUrl]_vars

\* loadSceneData with the worker that serves the entries of archives.
NextZip ==
    \/ NextLoad
    \/ ReadFromZip
    \/ ZipWorkerRun

InitZip == InitImporterIn(ZipWorlds) /\ InitMap /\ InitClient

\* Loads of a root document that imports zip archives.
SpecZip == InitZip /\ [][NextZip]_vars

\* The same with an owner that may cancel at any moment.
FairCancelSpec ==
    /\ InitCancel
    /\ [][Next]_vars
    /\ WF_vars(LoaderStep)
    /\ WF_vars(\E r \in inflight : FetchCallback(r))

(***************************************************************************)
(* Properties of Importer::loadSceneData                                   *)
(***************************************************************************)

\* C1: during one run of loadSceneData a fetch is started for each URL at
\* most once, for any import graph and any order of the callbacks.
C1_FetchedAtMostOnce == \A u \in Urls : fetchCount[u] <= 1

\* C2: for any finite import graph, cycles, self-imports and diamonds
\* included, if every started fetch delivers its callback, loadSceneData
\* leaves its loop and returns.
C2_Returns == <>(pc = "done")

\* loadSceneData has returned the merge of a graph in which root and a import
\* one another.
C2_ReturnedFromCycle ==
    /\ pc = "done"
    /\ "a" \in Range(world.imports["root"])
    /\ "root" \in Range(world.imports["a"])
    /\ Len(mergeLog) >= 2

Keys == {"x", "y", "z", "m", "p", "q"}

KeyPaths == {<<k>> : k \in Keys} \cup {<<j, k>> : j \in {"y", "m"}, k \in {"p", "q"}}

RECURSIVE ValueAt(_, _)
\* The node under a key path, Null where the path leads nowhere.
ValueAt(node, path) ==
    IF path = <<>> THEN node
    ELSE IF HasKey(node, Head(path))
         THEN ValueAt(Child(node, Head(path)), Tail(path))
         ELSE Null

\* What file f contributes to the merge in the current world.
DocOf(f) == IF f \in world.failing THEN Null ELSE Response(world, f).yaml

\* The non-empty prefixes of a key path.
Prefixes(path) == {SubSeq(path, 1, n) : n \in 1..Len(path)}

\* Document f decides what lies at `path`: it holds a value there, or
\* something other than a map on the way to it.
Touches(f, path) ==
    \E q \in Prefixes(path) :
        /\ ValueAt(DocOf(f), q) # Null
        /\ q = path \/ ~IsMap(ValueAt(DocOf(f), q))

\* The files whose documents were merged into root.
Merged == {f \in Files : \E i \in 1..Len(mergeLog) : mergeLog[i] = MkUrl(f)}

\* C3: for every import edge P -> C, at a key path where both hold a value
\* and not both hold maps, the merged root holds P's value. The paths looked
\* at are those no third merged document holds a value at, so that the
\* outcome is decided between P and C alone.
C3_ImporterOverrides ==
    (pc = "done" /\ ~m_canceled) =>
        \A P \in Merged : \A C \in Merged \cap Range(world.imports[P]) :
            \A path \in KeyPaths :
                LET vp == ValueAt(DocOf(P), path)
                    vc == ValueAt(DocOf(C), path)
                IN  ( /\ P # C
                      /\ vp # Null
                      /\ vc # Null
                      /\ ~(IsMap(vp) /\ IsMap(vc))
                      /\ \A D \in Merged \ {P, C} : ~Touches(D, path) )
                    => ValueAt(root, path) = vp

\* C4: each SceneNode is merged into root at most once, for any graph and
\* any import lists, a list naming one URL twice included.
C4_MergedAtMostOnce ==
    \A i, j \in 1..Len(mergeLog) : mergeLog[i] = mergeLog[j] => i = j

(***************************************************************************)
(* Properties of scene replacement in Map::Impl                            *)
(***************************************************************************)

\* The worker has nothing queued or running and no call is in progress.
Drained == asyncQueue = <<>> /\ running = NoTask /\ mainPc = "idle"

\* The scenes an asynchronous load has replaced.
Replaced ==
    {submitted[i].scene : i \in {j \in 1..Len(submitted) : submitted[j].kind = "dispose"}}
        \cup (IF oldScene = NoScene THEN {} ELSE {oldScene})

\* C5: every scene replaced by an asynchronous load is cancelled when its
\* replacement is submitted and destroyed exactly once, by its own dispose
\* task, which then holds the only reference (the leak warning is never
\* reached); no scene is destroyed twice, and once the worker has drained
\* every scene replaced by an asynchronous load has been destroyed.
C5_DisposedOnce ==
    /\ ~leakWarning
    /\ \A s \in SceneIds : destroyCount[s] <= 1
    /\ \A s \in Replaced :
         /\ s \in canceledScenes
         /\ destroyCount[s] = 1 => destroyedBy[s] = "dispose"
         /\ s \in alive <=> (s = oldScene \/ s \in PendingDispose)
         /\ Drained => destroyCount[s] = 1

\* Two scenes replaced by asynchronous loads were destroyed by their dispose
\* tasks and the worker has drained.
C5_TwoDisposed ==
    /\ Drained
    /\ Cardinality({s \in Replaced : destroyedBy[s] = "dispose"}) >= 2

\* C6: for any sequence of synchronous and asynchronous loads, no load task
\* queued or running on the worker refers to a scene that was destroyed.
C6_NoTaskOnDestroyedScene ==
    \A t \in Range(asyncQueue) \cup {running} :
        t.kind = "load" => t.scene \in alive

\* C7 as stated: at the return of every asynchronous load exactly two scenes
\* are alive, and exactly one once the worker has drained.
C7_TwoThenOne ==
    /\ \A i \in 1..Len(calls) : calls[i].async => calls[i].live = 2
    /\ Drained => Cardinality(alive) = 1

\* C7, amended: the scenes alive are the current one and one for every
\* dispose task that has not finished; at the return of an asynchronous load
\* that is the new scene, the outgoing one, and one more for every earlier
\* dispose task still waiting; once the worker has drained only the current
\* scene is alive.
C7_LiveScenes ==
    /\ alive = {scene} \cup PendingDispose
                 \cup (IF oldScene = NoScene THEN {} ELSE {oldScene})
    /\ \A i \in 1..Len(calls) :
         calls[i].async =>
            /\ calls[i].waiting >= 1
            /\ calls[i].live = 1 + calls[i].waiting
    /\ Drained => alive = {scene}

\* An asynchronous load returned with three scenes alive, and the worker has
\* drained since.
C7_ThreeAliveThenOne ==
    /\ Drained
    /\ \E i \in 1..Len(calls) : calls[i].async /\ calls[i].live = 3

\* The asynchronous calls that returned, in order.
AsyncCalls == SelectSeq(calls, LAMBDA c : c.async)

\* C8: the worker runs one task at a time, in the order of submission; the
\* tasks alternate load(N+1), dispose(N); dispose N starts after load N+1 has
\* ended and before the next load starts.
C8_WorkerOrder ==
    /\ \A k \in 1..Len(workerLog) :
         IF k % 2 = 1
         THEN /\ workerLog[k].ev = "start"
              /\ workerLog[k].task = submitted[(k + 1) \div 2]
         ELSE /\ workerLog[k].ev = "end"
              /\ workerLog[k].task = workerLog[k - 1].task
    /\ Len(submitted) = 2 * Len(AsyncCalls) + (IF mainPc = "async" THEN 1 ELSE 0)
    /\ \A k \in 1..Len(AsyncCalls) :
         /\ submitted[2 * k - 1] = LoadTask(AsyncCalls[k].made)
         /\ submitted[2 * k] = DisposeTask(AsyncCalls[k].replaced)
    /\ \A k \in 1..Len(workerLog) :
         (workerLog[k].ev = "start" /\ workerLog[k].task.kind = "dispose") =>
            /\ k > 2
            /\ workerLog[k - 1].ev = "end"
            /\ workerLog[k - 1].task.kind = "load"
            /\ \E c \in Range(calls) :
                 /\ c.async
                 /\ workerLog[k - 1].task.scene = c.made
                 /\ workerLog[k].task.scene = c.replaced
            /\ \A j \in (k + 1)..Len(workerLog) :
                 workerLog[j].task.kind = "load" => j > k + 1

\* The worker has run two load tasks and the dispose task between them.
C8_TwoLoadsRun ==
    \E k \in 1..Len(workerLog) :
        /\ workerLog[k].ev = "end"
        /\ workerLog[k].task.kind = "load"
        /\ k >= 6

\* No synchronous load was called.
OnlyAsync == mainPc # "sync" /\ \A i \in 1..Len(calls) : calls[i].async

\* The position at which the load task of scene id was submitted.
LoadIndex(id) == CHOOSE k \in 1..Len(submitted) : submitted[k] = LoadTask(id)

\* C9: for asynchronous loads submitted back to back the scene-ready
\* callbacks arrive in the order of submission, each from the worker with the
\* id of a scene whose load task was submitted, also when the scene was
\* cancelled before its load task ran.
C9_ReadyInOrder ==
    OnlyAsync =>
        /\ \A i \in 1..Len(readyLog) :
             /\ readyLog[i].thread = "worker"
             /\ LoadTask(readyLog[i].id) \in Range(submitted)
        /\ \A i, j \in 1..Len(readyLog) :
             i < j => LoadIndex(readyLog[i].id) < LoadIndex(readyLog[j].id)

\* Two callbacks arrived after asynchronous loads only, the first for a
\* scene that had been cancelled by then.
C9_CancelledThenNext ==
    /\ OnlyAsync
    /\ Len(readyLog) >= 2
    /\ readyLog[1].canceled
    /\ readyLog[1].id < readyLog[2].id

\* C10: the Map always owns a current scene; between calls it is the scene
\* the most recent call constructed, and every call returned the id of the
\* scene it constructed.
C10_CurrentIsLatest ==
    /\ scene \in alive
    /\ mainPc = "idle" =>
         scene = (IF calls = <<>> THEN 0 ELSE calls[Len(calls)].made)
    /\ \A i \in 1..Len(calls) :
         calls[i].id = calls[i].made

\* A synchronous and an asynchronous call have both returned.
C10_BothKindsReturned ==
    /\ mainPc = "idle"
    /\ \E i, j \in 1..Len(calls) : calls[i].async /\ ~calls[j].async

(***************************************************************************)
(* Cancelling and failing imports                                          *)
(***************************************************************************)

\* The positions of loadSceneData inside its loop, up to the check of line 83.
LoopPcs == {"top", "wait", "woken", "inc", "start", "record", "merge"}

\* C11: a cancel that arrives at any point of the loop makes loadSceneData
\* return, and the tree it returns is empty, whatever was fetched already.
C11_CancelReturnsEmpty ==
    (m_canceled /\ pc \in LoopPcs) ~> (pc = "done" /\ root = Null)

\* loadSceneData returned an empty tree after a cancel although a fetched
\* document had been parsed.
C11_CancelledAfterFetch ==
    /\ pc = "done"
    /\ m_canceled
    /\ root = Null
    /\ \E u \in DOMAIN m_sceneNodes : IsMap(m_sceneNodes[u].yaml)

\* C12: once cancelLoading has returned, every request the importer started
\* whose callback has not run has had cancelUrlRequest issued on its handle.
C12_OutstandingCancelled ==
    m_canceled => \A r \in inflight : r.h \in cancelIssued

\* The files that were fetched, parsed to a map and merged.
Loaded == Merged \ world.failing

\* C13: when a document other than the root fails to fetch, to parse or to
\* be a map, the returned tree still holds what every other loaded document
\* contributed: at a key path only one loaded document decides, the tree holds
\* that document's value.
C13_PartialScene ==
    (pc = "done" /\ ~m_canceled /\ world.failing # {}) =>
        \A D \in Loaded : \A path \in KeyPaths :
            ( /\ ValueAt(DocOf(D), path) # Null
              /\ \A E \in Loaded \ {D} : ~Touches(E, path) )
            => ValueAt(root, path) = ValueAt(DocOf(D), path)

(***************************************************************************)
(* The tree loadSceneData returns                                          *)
(***************************************************************************)

\* The tree is the deep merge of the documents `order`, applied first to
\* last: at every key path the last document that decides it wins, maps
\* merging key-wise.
DeepMergeOf(tree, order) ==
    /\ IsMap(tree)
    /\ DOMAIN tree.m \subseteq Keys
    /\ \A path \in KeyPaths :
         LET deciding == {i \in 1..Len(order) : Touches(order[i], path)} IN
         IF deciding = {}
         THEN ValueAt(tree, path) = Null
         ELSE LET last == CHOOSE i \in deciding : \A j \in deciding : j <= i
                  v == ValueAt(DocOf(order[last]), path)
              IN IF IsMap(v) THEN IsMap(ValueAt(tree, path))
                 ELSE ValueAt(tree, path) = v

\* Every loaded document imports at most one other, none fails and none
\* imports the root again.
IsChain ==
    /\ world.failing = {}
    /\ world.imports["root"] # <<>>
    /\ \A f \in Files : Len(world.imports[f]) <= 1 /\ "root" \notin Range(world.imports[f])

RECURSIVE ChainFrom(_)
\* The files of the chain that starts at f, deepest first.
ChainFrom(f) ==
    IF world.imports[f] = <<>> THEN <<f>>
    ELSE Append(ChainFrom(world.imports[f][1]), f)

\* C14: for a linear import chain of any length the returned tree is the
\* deep merge of the documents applied deepest first, the root last.
C14_ChainDeepestFirst ==
    (pc = "done" /\ ~m_canceled /\ IsChain) => DeepMergeOf(root, ChainFrom("root"))

\* loadSceneData returned the merge of the chain root, a, b, c.
C14_ChainOfFour ==
    /\ pc = "done"
    /\ ~m_canceled
    /\ IsChain
    /\ Len(ChainFrom("root")) = 4
    /\ root # Null

\* The files reachable from the root through import edges that load.
Reachable == ReachFrom(world.imports, world.failing, {"root"}) \ world.failing

\* The number of times file f was merged into root.
MergeCount(f) == Cardinality({i \in 1..Len(mergeLog) : mergeLog[i] = MkUrl(f)})

\* Root imports a and b, and both import c.
IsDiamond ==
    /\ world.failing = {}
    /\ world.imports = [root |-> <<"a", "b">>, a |-> <<"c">>, b |-> <<"c">>, c |-> <<>>]

\* C15: every loaded document reachable from the root is parsed once and
\* merged once, and a key that document alone sets is in the returned tree
\* with its value; so it is for c in the diamond.
C15_ParsedAndMergedOnce ==
    (pc = "done" /\ ~m_canceled) =>
        \A D \in Reachable :
            /\ parseCount[MkUrl(D)] = 1
            /\ MergeCount(D) = 1
            /\ \A path \in KeyPaths :
                 ( /\ ValueAt(DocOf(D), path) # Null
                   /\ \A E \in Reachable \ {D} : ~Touches(E, path) )
                 => ValueAt(root, path) = ValueAt(DocOf(D), path)

\* Root imports a and a imports root.
IsCycle ==
    /\ world.failing = {}
    /\ world.imports = [root |-> <<"a">>, a |-> <<"root">>, b |-> <<>>, c |-> <<>>]

\* loadSceneData returned the merge of a and then root, each merged once.
CycleMerged ==
    /\ pc = "done"
    /\ mergeLog = <<MkUrl("a"), MkUrl("root")>>
    /\ MergeCount("root") = 1
    /\ DeepMergeOf(root, <<"a", "root">>)

\* C16: for the import cycle root -> a -> root loading terminates, the
\* recursion stops after two calls, root is merged exactly once and the
\* result is a's document with root's own body merged on top of it.
C16_CycleTerminates == IsCycle => <>CycleMerged

\* The cycle was loaded from a root given by URL and a was fetched once.
C16_CycleLoaded ==
    /\ IsCycle
    /\ CycleMerged
    /\ fetchCount[MkUrl("root")] = 1
    /\ fetchCount[MkUrl("a")] = 1

\* The root imports itself and nothing else.
IsSelfImport ==
    /\ world.failing = {}
    /\ Range(world.imports["root"]) = {"root"}

\* loadSceneData returned the root document without its import field, having
\* fetched it at most once.
SelfMerged ==
    /\ pc = "done"
    /\ fetchCount[SceneUrl] <= 1
    /\ parseCount[SceneUrl] = 1
    /\ "import" \in DOMAIN DocOf("root").m
    /\ root = MapNode(DocBody("root"))

\* C17: a root document that imports itself, given by URL or as inline
\* text, is fetched at most once, loading terminates, and the returned tree
\* is the parsed document without its import field.
C17_SelfImport == IsSelfImport => <>SelfMerged

\* The self-importing root was given by URL, fetched once and returned.
C17_SelfImportFetched ==
    /\ IsSelfImport
    /\ SelfMerged
    /\ fetchCount[SceneUrl] = 1

\* The document file f serves, as it is parsed.
ParsedDoc(f) == Response(world, f).yaml

\* The documents of the world the root reaches.
AssetReach == ReachFrom(world.imports, {}, {"root"})

\* The positions some reachable document records as texture candidates.
CandidatePaths == UNION {GetTextureUrlNodes(ParsedDoc(f)) : f \in AssetReach}

\* The candidate scalars of the returned tree: positions whose value came
\* from a document that recorded the position as a candidate.
IsCandidate(path) ==
    LET node == NodeAtPath(root, path) IN
    /\ IsScalar(node) /\ "ref" \in DOMAIN node
    /\ node.ref \in AssetReach
    /\ path \in GetTextureUrlNodes(ParsedDoc(node.ref))

\* The scalar as the document it came from wrote it.
Written(path) == NodeAtPath(ParsedDoc(NodeAtPath(root, path).ref), path).v

NamesTexture(path) == Len(Written(path)) = 1 /\ HasKey(Child(root, "textures"), Written(path)[1])

\* C18: in the returned tree a texture-candidate scalar that is a key of
\* the merged `textures` map is as its document wrote it, and a candidate
\* that is no such key is an absolute URL.
C18_NamedKeptElseAbsolute ==
    pc = "done" =>
        \A path \in CandidatePaths :
            IsCandidate(path) =>
                IF NamesTexture(path)
                THEN NodeAtPath(root, path).v = Written(path)
                ELSE IsAbsolute(NodeAtPath(root, path).v)

\* C18 witness: a returned tree in which the root's style names a texture
\* that the document below defines, next to candidates that became URLs.
C18_NamedAndRewritten ==
    /\ pc = "done"
    /\ world.assets.named = SubFile
    /\ world.assets.tex["root"] = "name"
    /\ NodeAtPath(root, <<"styles", "s", "texture">>).v = <<"pois">>
    /\ IsCandidate(<<"styles", "s", "material", "diffuse", "texture">>)
    /\ IsAbsolute(NodeAtPath(root, <<"styles", "s", "material", "diffuse", "texture">>).v)

\* C19: a candidate that names no texture is, in the returned tree, the
\* scalar its document wrote resolved against the URL of that document,
\* whatever the order in which the documents were visited.
C19_ResolvedAgainstOwnDocument ==
    pc = "done" =>
        \A path \in CandidatePaths :
            (IsCandidate(path) /\ ~NamesTexture(path)) =>
                NodeAtPath(root, path).v
                    = ResolveUrl(BaseOf(UrlOfFile(NodeAtPath(root, path).ref)),
                                 Written(path))

UrlSections == {"textures", "sources", "fonts"}

\* The `url` scalars of one section of a tree, each with the place it
\* stands at: section, entry and, for a font given as a sequence, the index
\* in it (0 for an entry that is a map).
UrlSitesIn(tree, sec) ==
    IF ~(HasKey(tree, sec) /\ IsMap(tree.m[sec])) THEN {}
    ELSE UNION {
        LET entry == tree.m[sec].m[name] IN
        IF IsMap(entry) /\ HasKey(entry, "url") /\ IsScalar(entry.m["url"])
        THEN {[sec |-> sec, name |-> name, i |-> 0, v |-> entry.m["url"].v]}
        ELSE IF sec = "fonts" /\ IsSequence(entry)
             THEN {[sec |-> sec, name |-> name, i |-> i, v |-> entry.s[i].m["url"].v] :
                     i \in {j \in 1..Len(entry.s) : HasKey(entry.s[j], "url")}}
             ELSE {}
        : name \in DOMAIN tree.m[sec].m}

\* The `url` scalars of a tree under textures, sources and fonts.
UrlSites(tree) == UNION {UrlSitesIn(tree, sec) : sec \in UrlSections}

\* The documents that write the `url` of a place.
Writers(site) ==
    {f \in AssetReach :
        \E d \in UrlSites(ParsedDoc(f)) :
            d.sec = site.sec /\ d.name = site.name /\ d.i = site.i}

\* C20: in the returned tree the `url` of every texture, source and font is
\* what its document wrote, resolved against the URL of that document when
\* it is relative and as written when it begins with "global.", whatever is
\* merged after the document.
C20_UrlsResolvedOnce ==
    pc = "done" =>
        \A f \in AssetReach : \A d \in UrlSites(ParsedDoc(f)) :
            Writers(d) = {f} =>
                \E site \in UrlSites(root) :
                    /\ site.sec = d.sec /\ site.name = d.name /\ site.i = d.i
                    /\ site.v = IF d.v[1] \in GlobalRefs THEN d.v
                                ELSE ResolveUrl(UrlOfFile(f), d.v)

\* C20 witness: the document below was merged first and two documents
\* after it; its URLs stand resolved against its own directory and the
\* sibling's global reference stands as written.
C20_MergedFirstOfThree ==
    /\ pc = "done"
    /\ Len(mergeLog) = 3
    /\ mergeLog[1] = SubUrl
    /\ NodeAtPath(root, <<"textures", "tt", "url">>).v = <<BaseDir, "sub", "img", "tt.png">>
    /\ NodeAtPath(root, <<"sources", "st", "url">>).v = <<BaseDir, "sub", "t.json">>
    /\ NodeAtPath(root, <<"fonts", "ft", "url">>).v = <<BaseDir, "sub", "t.ttf">>
    /\ NodeAtPath(root, <<"sources", "sa", "url">>).v = <<"global.src">>

(***************************************************************************)
(* C21: staged tile-source calls take effect in submission order           *)
(***************************************************************************)

\* C21: an update that syncs the client tile sources leaves in the tile
\* manager of the current scene exactly the sources that are registered when
\* the client's addTileSource and removeTileSource calls are replayed in the
\* order they were made.
C21_ReplayedInOrder ==
    [][(Update /\ lastUpdate'.synced) => tileManager' = replayed']_vars

(***************************************************************************)
(* C22: client calls act through the job queue                             *)
(***************************************************************************)

\* The mutating calls of the client for tile sources, the camera and markers.
ClientCall ==
    \/ \E id \in SourceIds : AddTileSource(id) \/ RemoveTileSource(id) \/ ClearTileSource(id)
    \/ \E zoom \in Zooms : SetCameraPosition(zoom)
    \/ MarkerAdd
    \/ MarkerRemoveAll

\* C22: a mutating client call for markers, the camera or tile sources leaves
\* the view, the markers and the tile managers of the scenes as they were at
\* the time of the call; what it changes waits in the job queue for an update.
C22_CallsChangeNothing ==
    [][ClientCall => /\ view' = view
                     /\ markers' = markers
                     /\ tileManager' = tileManager]_vars

(***************************************************************************)
(* C28: what syncClientTileSources does with each source                   *)
(***************************************************************************)

\* A TileManager call that a staged flag asked for.
SyncOp(op, id) == [op |-> op, id |-> id, staged |-> TRUE]

\* The addClientTileSource call of a first update for a source whose added
\* flag is not set.
ReAdd(id) == [op |-> "add", id |-> id, staged |-> FALSE]

\* C28: in an update that syncs, a source staged for removal is unregistered
\* from the tile manager and its registration erased; any other source is
\* registered when its add is staged and has its tile set dropped when its
\* clear is staged; afterwards no remaining registration has an added, clear
\* or remove flag pending.
C28_SyncPerSource ==
    [][(Update /\ lastUpdate'.synced) =>
        /\ \A id \in DOMAIN clientTileSources :
             IF clientTileSources[id].remove
             THEN /\ SyncOp("remove", id) \in lastSync'
                  /\ id \notin tileManager'
                  /\ id \notin DOMAIN clientTileSources'
                  /\ SyncOp("add", id) \notin lastSync'
                  /\ ReAdd(id) \notin lastSync'
                  /\ SyncOp("clear", id) \notin lastSync'
             ELSE /\ id \in DOMAIN clientTileSources'
                  /\ SyncOp("remove", id) \notin lastSync'
                  /\ clientTileSources[id].added =>
                       SyncOp("add", id) \in lastSync' /\ id \in tileManager'
                  /\ clientTileSources[id].clear <=> SyncOp("clear", id) \in lastSync'
        /\ \A id \in DOMAIN clientTileSources' :
             clientTileSources'[id] = NewClientTileSource]_vars

\* An update has registered source 1 and dropped its tile set in one batch.
C28_AddedAndCleared ==
    /\ lastUpdate.synced
    /\ lastSync = {SyncOp("add", 1), SyncOp("clear", 1)}
    /\ 1 \in tileManager
    /\ clientTileSources[1] = NewClientTileSource

(***************************************************************************)
(* C29: client tile sources survive a scene reload                         *)
(***************************************************************************)

\* C29: in the first update in which the current scene is ready, every
\* registered client source that is not staged for removal is added to the
\* tile manager of that scene, whether its added flag is still set or was
\* consumed by an update of an earlier scene.
C29_SourcesSurviveReload ==
    [][(Update /\ scene \notin readyScenes /\ scene \in readyScenes') =>
        \A id \in DOMAIN clientTileSources :
           ~clientTileSources[id].remove =>
              /\ id \in tileManager'
              /\ \/ SyncOp("add", id) \in lastSync'
                 \/ ReAdd(id) \in lastSync']_vars

\* Source 1, whose added flag an earlier scene consumed, is registered in the
\* tile manager of the scene loaded after it.
C29_ReaddedAfterReload ==
    /\ scene = 2
    /\ readyScenes = {1, 2}
    /\ 1 \in tileManager
    /\ lastSync = {ReAdd(1)}
    /\ clientTileSources[1] = NewClientTileSource

(***************************************************************************)
(* C30: an update of a scene that is still loading                         *)
(***************************************************************************)

\* C30: an update made while the current scene is not complete reports
\* scene_loading, applies no staged tile-source call and does not tick the
\* scene: the staged flags, the tile managers and the record of the last sync
\* are what they were before the update.
C30_LoadingUpdateAppliesNothing ==
    [][(Update /\ ~CompleteScene(scene)) =>
        /\ lastUpdate'.scene_loading
        /\ ~lastUpdate'.synced
        /\ ~lastUpdate'.ticked
        /\ clientTileSources' = clientTileSources
        /\ tileManager' = tileManager
        /\ lastSync' = lastSync
        /\ readyScenes' = readyScenes]_vars

\* An update has reported scene_loading while the add of source 1 is staged
\* for a scene that replaced a ready one.
C30_StagedWhileLoading ==
    /\ lastUpdate.scene_loading
    /\ scene = 2
    /\ 1 \in readyScenes
    /\ ~CompleteScene(scene)
    /\ 1 \in DOMAIN clientTileSources
    /\ clientTileSources[1].added
    /\ 1 \notin tileManager

(***************************************************************************)
(* C23: one scene-ready invocation per load                                *)
(***************************************************************************)

\* The latest invocation of the scene-ready listener.
LastReady == readyLog[Len(readyLog)]

\* C23: while a scene-ready listener is set, a load task that runs makes
\* exactly one invocation of the listener, on the worker and with the id the
\* loadSceneAsync call of that task returned; a synchronous load makes exactly
\* one invocation on the calling thread, before the call returns, with the id
\* it returns.
C23_OneReadyPerLoad ==
    [][/\ (RunLoad /\ onSceneReady) =>
            /\ Len(readyLog') = Len(readyLog) + 1
            /\ LastReady'.id = running.scene
            /\ LastReady'.thread = "worker"
       /\ (LoadSceneLoad /\ onSceneReady) =>
            /\ Len(readyLog') = Len(readyLog) + 1
            /\ LastReady'.id = calls'[Len(calls')].id
            /\ LastReady'.thread = "main"]_vars

(***************************************************************************)
(* C27: the order of shutdown                                              *)
(***************************************************************************)

\* The steps of the worker thread: it takes a task or finishes one.
WorkerStep == WorkerTake \/ RunLoad \/ RunDispose

\* C27: the destructor shuts the platform down, joins the ordered worker,
\* destroys the current scene and then stops the main job queue, in this
\* order; once the current scene was destroyed the worker starts and finishes
\* no load or dispose task.
C27_ShutdownOrder ==
    [][/\ shutdownLog' = SubSeq(<<"platform", "worker", "scene", "jobs">>, 1,
                                Len(shutdownLog'))
       /\ "scene" \in Range(shutdownLog) => ~WorkerStep]_vars

\* The destructor has finished after a load task ran and while a load task
\* and a dispose task were still queued, which it dropped.
C27_ShutDownWithPendingTasks ==
    /\ Len(shutdownLog) = 4
    /\ Len(submitted) = 4
    /\ Len(workerLog) = 2
    /\ workerLog[1].task.kind = "load"
    /\ \E s \in SceneIds : destroyedBy[s] = "shutdown"
    /\ alive = {}

(***************************************************************************)
(* C24: the base document of a zip archive                                 *)
(***************************************************************************)

\* The entries of the archive the world serves at an archive URL.
EntriesAt(url) == world.zip[FileOf(url)]

\* C24: once the response for an archive URL was processed, the archive is
\* retained under that URL; the document parsed for the URL is that of the
\* first entry in archive order with extension yaml or yml and no '/' in its
\* path, later such entries and entries in sub-directories being passed
\* over; when no entry qualifies nothing was parsed for the URL.
C24_FirstRootYamlIsBase ==
    \A url \in DOMAIN zipBase :
        LET entries == EntriesAt(url)
            qualifies(j) == /\ PathExtension(entries[j][Len(entries[j])]) \in {"yaml", "yml"}
                            /\ Len(entries[j]) = 1
            first == {j \in 1..Len(entries) :
                        qualifies(j) /\ \A k \in 1..(j - 1) : ~qualifies(k)}
        IN /\ url \in DOMAIN m_zipArchives
           /\ m_zipArchives[url] = entries
           /\ IF first = {}
              THEN /\ zipBase[url] = 0
                   /\ parseCount[url] = 0
                   /\ url \in DOMAIN m_sceneNodes => m_sceneNodes[url].yaml = Null
              ELSE /\ zipBase[url] \in first
                   /\ parseCount[url] = 1
                   /\ url \in DOMAIN m_sceneNodes =>
                        m_sceneNodes[url].yaml =
                          RemoveKey(EntryDoc(entries[zipBase[url]], FileOf(url)), "import")

\* The archive holds a yaml entry in a sub-directory, then t.yaml, then
\* a.yaml: t.yaml was parsed as its scene.
C24_SecondEntryIsBase ==
    /\ MkUrl("pack.zip") \in DOMAIN zipBase
    /\ EntriesAt(MkUrl("pack.zip")) = <<<<"sub", "s.yaml">>, <<"t.yaml">>, <<"a.yaml">>>>
    /\ zipBase[MkUrl("pack.zip")] = 2
    /\ parseCount[MkUrl("pack.zip")] = 1

(***************************************************************************)
(* C25: references of a document loaded from a zip archive                 *)
(***************************************************************************)

\* zip://<percent-encoded archive URL>/<path>, for the archives of the model.
ZipEntryUrl(archive, path) ==
    <<ZipScheme, IF archive = MkUrl("pack.zip") THEN "d%2Fp" ELSE "d%2Fm">> \o path

\* The archive URL a zip entry URL of the model carries.
CarriedArchive(url) == IF url[2] = "d%2Fp" THEN MkUrl("pack.zip") ELSE MkUrl("more.zip")

\* The loop of loadSceneData has not handed over to the merge.
Fetching == pc \notin {"begin", "import", "finish", "done"} /\ stack = <<>>

\* C25: a document loaded from the archive at URL A has its import p
\* resolved to the zip URL of A with entry path p, and its texture references
\* in the returned tree are zip URLs of A with the path they name; the fetch
\* of a zip URL does not go to the platform, and is answered with entry p of
\* the archive retained for A whenever that archive holds p.
C25_ZipReferences ==
    /\ \A a \in DOMAIN zipBase :
         (Fetching /\ zipBase[a] # 0 /\ EntriesAt(a)[zipBase[a]] = <<"a.yaml">>) =>
            m_sceneNodes[a].imports = <<ZipEntryUrl(a, <<"t.yaml">>)>>
    /\ \A a \in DOMAIN zipBase :
         (pc = "done" /\ zipBase[a] # 0 /\ EntriesAt(a)[zipBase[a]] = <<"a.yaml">>) =>
            /\ root.m["styles"].m["sa"].m["texture"].v = ZipEntryUrl(a, <<"img", "x.png">>)
            /\ root.m["textures"].m["ta"].m["url"].v = ZipEntryUrl(a, <<"img", "tt.png">>)
    /\ \A i \in DOMAIN zipLog :
         LET url == zipLog[i].url
             a == CarriedArchive(url)
             path == SubSeq(url, 3, Len(url))
         IN /\ fetchCount[url] = 0
            /\ a \in DOMAIN m_zipArchives
            /\ (\E j \in DOMAIN EntriesAt(a) : EntriesAt(a)[j] = path) =>
                 zipLog[i].response = [error |-> FALSE,
                                       yaml |-> EntryDoc(path, path[Len(path)])]

(***************************************************************************)
(* C26: from an archive URL to an entry URL and back                       *)
(***************************************************************************)

C31_LateCallbackIsNoOp ==
    [][(m_canceled /\ \E r \in inflight : FetchCallback(r)) =>
          UNCHANGED <<m_sceneNodes, m_sceneQueue, parseCount>>]_vars

\* C32: cancelLoading wakes a loop that waits on the condition variable
\* with fetches outstanding.
C32_CancelWakes ==
    [][(CancelLoading /\ pc = "wait" /\ activeDownloads > 0) => pc' = "woken"]_vars

(***************************************************************************)
(* C33: the fetch loop outlives the callbacks of its fetches               *)
(***************************************************************************)

\* The fetches the loop has started whose callback has not finished: the
\* requests out at the platform and the tasks of the zip worker.
Pending == Cardinality(inflight) + Len(zipQueue)

\* The positions of loadSceneData behind its loop (lines 83-108).
AfterLoopPcs == {"merge", "import", "finish", "done"}

\* C33: the download counter is the number of fetches whose callback has
\* not finished, counting the one the loop is about to start, and
\* loadSceneData is behind its loop only when there is none, cancelled or
\* not.
C33_LoopOutlivesCallbacks ==
    /\ activeDownloads = Pending + (IF pc = "start" THEN 1 ELSE 0)
    /\ pc \in AfterLoopPcs => Pending = 0

\* C33 witness: a cancelled loop waits for the callbacks of two fetches.
C33_CancelledLoopWaits ==
    /\ pc = "wait"
    /\ m_canceled
    /\ Cardinality(inflight) = 2
    /\ activeDownloads = 2

(***************************************************************************)
(* C34: the importer mutex                                                 *)
(***************************************************************************)

\* C34: while the callback of a fetch is outstanding, a step of
\* loadSceneData that reads or writes the scene queue, the SceneNode map or
\* the handle list holds m_sceneMutex. The callbacks and cancelLoading take
\* the mutex at their first line.
C34_AccessUnderMutex ==
    (Pending > 0 /\ Accesses(pc) # {}) => HoldsMutex(pc)

\* C34 witness: the loop is about to dequeue the next URL while the
\* callback of a fetch it started is outstanding.
C34_DequeueWhileFetching ==
    /\ pc = "top"
    /\ Cardinality(inflight) = 1
    /\ m_sceneQueue # <<>>
    /\ ~m_canceled

(***************************************************************************)
(* C35: the returned tree is a function of the documents                   *)
(***************************************************************************)

UniformSites(uniforms) ==
    IF ~IsMap(uniforms) THEN {}
    ELSE UNION {
        LET value == uniforms.m[u] IN
        IF IsSequence(value)
        THEN {[path |-> <<u, IndexKey(i)>>, node |-> value.s[i]] : i \in 1..Len(value.s)}
        ELSE {[path |-> <<u>>, node |-> value]}
        : u \in DOMAIN uniforms.m}

\* The fixed locations of one style, whatever its other fields are.
StyleSites(style) ==
    {[path |-> <<"texture">>, node |-> Child(style, "texture")]}
    \cup {[path |-> <<"material", prop, "texture">>,
           node |-> Child(Child(Child(style, "material"), prop), "texture")] :
            prop \in MaterialProps}
    \cup {[path |-> <<"shaders", "uniforms">> \o site.path, node |-> site.node] :
            site \in UniformSites(Child(Child(style, "shaders"), "uniforms"))}

\* The key paths of the candidates of a document: for every style that is a
\* map, the fixed locations that hold a string that is no global reference,
\* no boolean and no number.
Candidates(yaml) ==
    LET styles == Child(yaml, "styles") IN
    IF ~IsMap(styles) THEN {}
    ELSE UNION {
        {<<"styles", name>> \o site.path :
            site \in {t \in StyleSites(styles.m[name]) :
                        /\ IsScalar(t.node)
                        /\ t.node.v[1] \notin GlobalRefs
                        /\ t.node.v[1] \notin BoolOrNumber}}
        : name \in {k \in DOMAIN styles.m : IsMap(styles.m[k])}}

\* C36: the texture candidates recorded for the root document are the
\* candidate scalars at the fixed locations of every style that is a map,
\* whatever shape the other fields of the style have.
C36_CandidatesAtFixedLocations ==
    (pc = "top" /\ SceneUrl \in DOMAIN m_sceneNodes) =>
        m_sceneNodes[SceneUrl].pendingUrlNodes
            = Candidates(Response(world, FileOf(SceneUrl)).yaml)

(***************************************************************************)
(* C37: only the top-level import key is followed and removed              *)
(***************************************************************************)

\* The files the top-level import fields lead to from the root.
Followed == ReachFrom(world.imports, {}, {"root"})

\* C37: when a load returns, exactly the documents that the top-level
\* import fields lead to were fetched and parsed, the returned tree has no
\* top-level `import` key, and the sub-map with a nested `import` key is in
\* the tree as the document wrote it; its target was not fetched for it.
C37_OnlyTopLevelImport ==
    (pc = "done" /\ root # Null) =>
        /\ \A f \in Files \ {"root"} :
              /\ fetchCount[MkUrl(f)] > 0 <=> f \in Followed
              /\ parseCount[MkUrl(f)] > 0 <=> f \in Followed
        /\ ~HasKey(root, "import")
        /\ world.nested \in Followed => Child(root, "sub") = NestedMap(world.nested)

\* A load has returned the tree of a world where document a has the nested
\* key and a map in its import sequence, and c was never fetched.
C37_NestedImportKept ==
    /\ pc = "done"
    /\ root # Null
    /\ world.nested = "a"
    /\ world.mixed
    /\ world.imports["a"] # <<>>
    /\ Child(Child(root, "sub"), "import") = Scalar(NestedTarget)
    /\ fetchCount[MkUrl(NestedTarget)] = 0

(***************************************************************************)
(* C38: the prefetch job of a replaced scene                               *)
(***************************************************************************)

\* C38: the prefetch jobs that take effect in an update are jobs of the
\* scene that is current in that update: the job of a scene that was
\* replaced prefetches nothing and leaves the background alone.
C38_StaleJobHasNoEffect ==
    [][Update => /\ prefetchedBy' \subseteq {scene}
                 /\ (scene \notin Range(jobQueue) => background' = background)]_vars

(***************************************************************************)
(* C39: an entry is requested only after its archive is registered         *)
(***************************************************************************)

\* The zip URLs that wait in the scene queue, are about to be requested or
\* wait for m_zipWorker.
WaitingEntryUrls ==
    {u \in Range(m_sceneQueue) \cup Range(zipQueue)
           \cup (IF pc = "start" THEN {nextUrlToImport} ELSE {}) : u[1] = ZipScheme}

\* C39: the archive of every zip URL that waits to be requested or answered
\* is in m_zipArchives, and no answered request failed unless its archive
\* lacks the entry.
C39_ArchiveRegisteredFirst ==
    /\ \A u \in WaitingEntryUrls : CarriedArchive(u) \in DOMAIN m_zipArchives
    /\ \A i \in DOMAIN zipLog :
         zipLog[i].response.error =>
            \A j \in DOMAIN EntriesAt(CarriedArchive(zipLog[i].url)) :
               EntriesAt(CarriedArchive(zipLog[i].url))[j]
                  # SubSeq(zipLog[i].url, 3, Len(zipLog[i].url))

(***************************************************************************)
(* C40: Style::compare is a strict weak ordering                           *)
(***************************************************************************)

\* Neither style is before the other.
Equivalent(i, j) == ~compared.less[i][j] /\ ~compared.less[j][i]

\* C40: over three styles with distinct names, of any blend modes and blend
\* orders, Style::compare is irreflexive, asymmetric and transitive, its
\* incomparability is transitive, and an opaque style is before every style
\* that is not opaque.
C40_StrictWeakOrdering ==
    compared.step = "compared" =>
        /\ \A i \in 1..3 : ~compared.less[i][i]
        /\ \A i, j \in 1..3 : compared.less[i][j] => ~compared.less[j][i]
        /\ \A i, j, k \in 1..3 :
              (compared.less[i][j] /\ compared.less[j][k]) => compared.less[i][k]
        /\ \A i, j, k \in 1..3 :
              (Equivalent(i, j) /\ Equivalent(j, k)) => Equivalent(i, k)
        /\ \A i, j \in 1..3 :
              (compared.list[i].mode = "opaque" /\ compared.list[j].mode # "opaque") =>
                 (compared.less[i][j] /\ ~compared.less[j][i])

\* Compared: an opaque style of the largest blend order, a translucent style
\* of a smaller one and an additive style of the smallest; the opaque style
\* comes first and the blend order decides between the other two.
C40_OpaqueWithLargerOrder ==
    /\ compared.step = "compared"
    /\ compared.list[1] = [mode |-> "opaque", order |-> MaxBlendOrder, name |-> <<"a">>]
    /\ compared.list[2] = [mode |-> "translucent", order |-> 0, name |-> <<"a", "b">>]
    /\ compared.list[3] = [mode |-> "add", order |-> 0 - 1, name |-> <<"b">>]
    /\ compared.less[1][2]
    /\ compared.less[1][3]
    /\ compared.less[3][2]

====
